---- MODULE Spec2Model ----
(***************************************************************************)
(* Verification model of the orchestration layer of ez-rent:               *)
(*   - the bounded-concurrency detail fetch (scrape_hotel_data_concurrent) *)
(*   - the Entity Cache (hotel_cache.py)                                   *)
(*   - the Parameter Cache gate of scrape_general_data                     *)
(*   - the retraining decision (should_retrain_model)                      *)
(*   - the resolution of a named hotel (scrape_specific_property_data)     *)
(*   - the price and distance parsers (extract_price_components,           *)
(*     parse_distance_km)                                                  *)
(*   - one run of the orchestrator (scrape_booking_com_data), in the two   *)
(*     source trees of the repository                                      *)
(*   - the search-URL cache (get_cached_url, cache_url)                    *)
(* Every component has its own specification over the shared variables;    *)
(* the variables of the other components stay at their idle values.        *)
(* A coroutine takes one step from an await to its next one: the calls of  *)
(* scrape_general_data, scrape_specific_property_data and                  *)
(* scrape_booking_com_data that are suspended are kept with their local    *)
(* variables, and calls that overlap on the event loop interleave.         *)
(***************************************************************************)
EXTENDS Integers, Sequences, FiniteSets, Bags, TLC

VARIABLES
    \* ---- scrape_hotel_data_concurrent ----
    urls,               \* the urls argument
    max_concurrent,     \* the max_concurrent argument
    sem_value,          \* asyncio.Semaphore counter
    tpc,                \* position of every scrape_with_semaphore task
    ctx_open,           \* task i holds a browser context that is not closed
    page_open,          \* task i holds a page that is not closed
    fetch_outcome,      \* outcome of scrape_hotel_data(page, url) in task i
    raised_at,          \* the await whose exception task i ended with, or "none"
    completed_results,  \* what asyncio.gather collects for task i
    main_pc,            \* position of scrape_hotel_data_concurrent itself
    successful_results, \* the list it returns
    \* ---- clock (hours in the Entity Cache specification) ----
    now,
    \* ---- Entity Cache, hotel_cache.py ----
    ec_files,           \* cache key -> the <key>.json file under SCRAPED_DATA_DIR
    \* ---- Parameter Cache of scrape_general_data (clock in days) ----
    pc_props_file,      \* properties/<destination>/<adults>/<rooms>/limit_<limit>.csv
    pc_details_files,   \* hotel_details_limit -> hotel_details/.../limit_<n>.csv
    pc_url_cached,      \* urls.csv holds a row for (destination, adults, rooms)
    pc_calls,           \* the calls of scrape_general_data in flight (a bag)
    \* ---- retraining decision (clock in days) ----
    rt_file,            \* <ML_MODEL_DIR>/<model_filename>.json
    rt_decision,        \* the last call of should_retrain_model and its result
    ml_dirs,            \* the directories that exist at and below ML_MODEL_DIR
    \* ---- scrape_specific_property_data (clock in hours) ----
    sp_target,          \* the target_hotel_name argument
    sp_cards,           \* the property cards of the search result page, in order
    sp_outcome,         \* how the call that ended last ended
    sp_calls,           \* the number of calls suspended in the page work
    \* ---- extract_price_components ----
    pr_input,           \* the price_string argument
    pr_result,          \* what the last call returned for it
    \* ---- parse_distance_km ----
    ds_input,           \* the value_string argument
    ds_result,          \* what the last call returned for it
    \* ---- scrape_booking_com_data (clock in days) ----
    or_tree,            \* the source tree the deployment runs: "app" or "server"
    or_run,             \* the run that ended last of those begun last
    or_runs,            \* the runs in flight (a bag)
    \* ---- search-URL cache ----
    uc_file,            \* ./scraped/urls.csv
    uc_result           \* the last call of cache_url or get_cached_url

fetchVars == <<urls, max_concurrent, sem_value, tpc, ctx_open, page_open,
               fetch_outcome, raised_at, completed_results, main_pc,
               successful_results>>

entityVars == <<ec_files>>

paramVars == <<pc_props_file, pc_details_files, pc_url_cached, pc_calls>>

retrainVars == <<rt_file, rt_decision, ml_dirs>>

resolveVars == <<sp_target, sp_cards, sp_outcome, sp_calls>>

priceVars == <<pr_input, pr_result>>

distanceVars == <<ds_input, ds_result>>

orchestrateVars == <<or_tree, or_run, or_runs>>

urlCacheVars == <<uc_file, uc_result>>

vars == <<fetchVars, now, entityVars, paramVars, retrainVars, resolveVars,
          priceVars, distanceVars, orchestrateVars, urlCacheVars>>

nonFetchVars == <<now, entityVars, paramVars, retrainVars, resolveVars, priceVars,
    distanceVars,
    orchestrateVars, urlCacheVars>>
nonEntityVars == <<fetchVars, paramVars, retrainVars, resolveVars, priceVars,
    distanceVars,
    orchestrateVars, urlCacheVars>>
nonParamVars == <<fetchVars, entityVars, retrainVars, resolveVars, priceVars,
    distanceVars,
    orchestrateVars, urlCacheVars>>
nonRetrainVars == <<fetchVars, entityVars, paramVars, resolveVars, priceVars,
    distanceVars,
    orchestrateVars, urlCacheVars>>
nonResolveVars == <<fetchVars, paramVars, retrainVars, priceVars,
    distanceVars,
    orchestrateVars, urlCacheVars>>
nonPriceVars == <<fetchVars, now, entityVars, paramVars, retrainVars, resolveVars,
    distanceVars,
    orchestrateVars, urlCacheVars>>
nonOrchestrateVars == <<fetchVars, resolveVars, priceVars, distanceVars,
    urlCacheVars>>
nonUrlCacheVars == <<fetchVars, now, entityVars, paramVars, retrainVars, resolveVars,
    priceVars, distanceVars, orchestrateVars>>
nonDistanceVars == <<fetchVars, now, entityVars, paramVars, retrainVars, resolveVars,
    priceVars,
    orchestrateVars, urlCacheVars>>

(***************************************************************************)
(* Bounds                                                                  *)
(***************************************************************************)
MaxUrls == 3
MaxConcurrent == 2
MaxClock == 2        \* the clock stops advancing here
MaxAgeHours == 1     \* max_age_hours arguments tried: 0..MaxAgeHours
MaxDelayDays == 1    \* force_fetch_delay arguments tried: None, 0..MaxDelayDays days
MaxCount == 2        \* property and hotel-detail counts tried: 0..MaxCount
MaxModelAgeDays == 1 \* max_model_age_days arguments tried: 0..MaxModelAgeDays
MaxRunDays == 1      \* days between the runs of scrape_booking_com_data: 0..MaxRunDays
MaxRows == 3         \* rows of urls.csv: 0..MaxRows
MaxCards == 6        \* property cards on the search result page: 0..MaxCards
MaxCallers == 2      \* calls of one coroutine that overlap on the event loop: 1..MaxCallers
MaxLiteralLen == 6   \* characters of the numeric literals tried: 1..MaxLiteralLen

(***************************************************************************)
(* Concurrent Fetch Orchestrator                                           *)
(* src/app/scrapers/booking_com/processing/concurrent_scrapers.py          *)
(***************************************************************************)
\* the url lists tried: n distinct hotel urls, numbered in list order
UrlLists == {[i \in 1..n |-> i] : n \in 0..MaxUrls}

Tasks == 1..Len(urls)

\* asyncio.Semaphore(max_concurrent): the initial counter
SemaphoreInit_off(mc) == mc + 1
SemaphoreInit(mc) == mc

\* Semaphore.acquire proceeds without waiting only while the counter is positive
SemaphoreLocked(v) == v = 0

\* Semaphore.release
SemaphoreRelease_lost(v) == v
SemaphoreRelease(v) == v + 1

\* what a task hands to gather(return_exceptions=True)
Payload(u) == [kind |-> "ok", url |-> u]
Raised(u) == [kind |-> "exc", url |-> u]
Pending(u) == [kind |-> "pending", url |-> u]

\* lines 47-53: keep the results that are not exceptions, in gather order
CollectSuccessful_all(results) == results
CollectSuccessful(results) == SelectSeq(results, LAMBDA r : r.kind # "exc")

FetchInputs ==
    /\ urls \in UrlLists
    /\ max_concurrent \in 1..MaxConcurrent
    /\ sem_value = SemaphoreInit(max_concurrent)
    /\ tpc = [i \in Tasks |-> "acquire"]
    /\ ctx_open = [i \in Tasks |-> FALSE]
    /\ page_open = [i \in Tasks |-> FALSE]
    /\ fetch_outcome = [i \in Tasks |-> "pending"]
    /\ raised_at = [i \in Tasks |-> "none"]
    /\ completed_results = [i \in Tasks |-> Pending(urls[i])]
    /\ main_pc = "gather"
    /\ successful_results = <<>>

\* no batch is submitted
FetchIdle ==
    /\ urls = <<>>
    /\ max_concurrent = 1
    /\ sem_value = SemaphoreInit(1)
    /\ tpc = <<>>
    /\ ctx_open = <<>>
    /\ page_open = <<>>
    /\ fetch_outcome = <<>>
    /\ raised_at = <<>>
    /\ completed_results = <<>>
    /\ main_pc = "idle"
    /\ successful_results = <<>>

\* the task leaves `async with semaphore` with an exception
TaskRaises(i, step) ==
    /\ raised_at' = [raised_at EXCEPT ![i] = step]
    /\ sem_value' = SemaphoreRelease(sem_value)
    /\ completed_results' = [completed_results EXCEPT ![i] = Raised(urls[i])]
    /\ tpc' = [tpc EXCEPT ![i] = "ended"]

\* line 28: async with semaphore
Acquire(i) ==
    /\ main_pc = "gather"
    /\ tpc[i] = "acquire"
    /\ ~SemaphoreLocked(sem_value)
    /\ sem_value' = sem_value - 1
    /\ tpc' = [tpc EXCEPT ![i] = "new_context"]
    /\ UNCHANGED <<urls, max_concurrent, ctx_open, page_open, fetch_outcome,
                   raised_at, completed_results, main_pc, successful_results>>
    /\ UNCHANGED nonFetchVars

\* line 29: context = await browser.new_context()
NewContext(i) ==
    /\ tpc[i] = "new_context"
    /\ \E ok \in BOOLEAN :
         IF ok
         THEN /\ ctx_open' = [ctx_open EXCEPT ![i] = TRUE]
              /\ tpc' = [tpc EXCEPT ![i] = "new_page"]
              /\ UNCHANGED <<sem_value, completed_results, raised_at>>
         ELSE /\ TaskRaises(i, "new_context")
              /\ UNCHANGED ctx_open
    /\ UNCHANGED <<urls, max_concurrent, page_open, fetch_outcome,
                   main_pc, successful_results>>
    /\ UNCHANGED nonFetchVars

\* line 30: page = await context.new_page()  (outside the try block)
NewPage(i) ==
    /\ tpc[i] = "new_page"
    /\ \E ok \in BOOLEAN :
         IF ok
         THEN /\ page_open' = [page_open EXCEPT ![i] = TRUE]
              /\ tpc' = [tpc EXCEPT ![i] = "fetch"]
              /\ UNCHANGED <<sem_value, completed_results, raised_at>>
         ELSE /\ TaskRaises(i, "new_page")
              /\ UNCHANGED page_open
    /\ UNCHANGED <<urls, max_concurrent, ctx_open, fetch_outcome,
                   main_pc, successful_results>>
    /\ UNCHANGED nonFetchVars

\* lines 31-33: result = await scrape_hotel_data(page, url); control then
\* enters the finally block whatever the outcome
Fetch(i) ==
    /\ tpc[i] = "fetch"
    /\ \E ok \in BOOLEAN :
         /\ fetch_outcome' = [fetch_outcome EXCEPT ![i] = IF ok THEN "ok" ELSE "raised"]
         /\ raised_at' = [raised_at EXCEPT ![i] = IF ok THEN "none" ELSE "fetch"]
    /\ tpc' = [tpc EXCEPT ![i] = "page_close"]
    /\ UNCHANGED <<urls, max_concurrent, sem_value, ctx_open, page_open,
                   completed_results, main_pc, successful_results>>
    /\ UNCHANGED nonFetchVars

\* line 35: await page.close(); an exception here leaves the finally block
\* and replaces the pending return value or exception
PageClose(i) ==
    /\ tpc[i] = "page_close"
    /\ \E ok \in BOOLEAN :
         IF ok
         THEN /\ page_open' = [page_open EXCEPT ![i] = FALSE]
              /\ tpc' = [tpc EXCEPT ![i] = "context_close"]
              /\ UNCHANGED <<sem_value, completed_results, raised_at>>
         ELSE /\ TaskRaises(i, "page_close")
              /\ UNCHANGED page_open
    /\ UNCHANGED <<urls, max_concurrent, ctx_open, fetch_outcome,
                   main_pc, successful_results>>
    /\ UNCHANGED nonFetchVars

\* line 36: await context.close(); then the task returns result or re-raises
ContextClose(i) ==
    /\ tpc[i] = "context_close"
    /\ \E ok \in BOOLEAN :
         IF ok
         THEN /\ ctx_open' = [ctx_open EXCEPT ![i] = FALSE]
              /\ sem_value' = SemaphoreRelease(sem_value)
              /\ completed_results' =
                   [completed_results EXCEPT ![i] =
                      IF fetch_outcome[i] = "ok" THEN Payload(urls[i])
                                                 ELSE Raised(urls[i])]
              /\ tpc' = [tpc EXCEPT ![i] = "ended"]
              /\ UNCHANGED raised_at
         ELSE /\ TaskRaises(i, "context_close")
              /\ UNCHANGED ctx_open
    /\ UNCHANGED <<urls, max_concurrent, page_open, fetch_outcome,
                   main_pc, successful_results>>
    /\ UNCHANGED nonFetchVars

\* lines 45-58: gather returns once every task has ended; filter and return
GatherReturns ==
    /\ main_pc = "gather"
    /\ \A i \in Tasks : tpc[i] = "ended"
    /\ successful_results' = CollectSuccessful(completed_results)
    /\ main_pc' = "done"
    /\ UNCHANGED <<urls, max_concurrent, sem_value, tpc, ctx_open, page_open,
                   fetch_outcome, raised_at, completed_results>>
    /\ UNCHANGED nonFetchVars

FetchNext ==
    \/ \E i \in Tasks : Acquire(i)
    \/ \E i \in Tasks : NewContext(i)
    \/ \E i \in Tasks : NewPage(i)
    \/ \E i \in Tasks : Fetch(i)
    \/ \E i \in Tasks : PageClose(i)
    \/ \E i \in Tasks : ContextClose(i)
    \/ GatherReturns

\* tasks inside the semaphore-guarded section
InSection == {i \in Tasks : tpc[i] \in {"new_context", "new_page", "fetch",
                                        "page_close", "context_close"}}

(***************************************************************************)
(* Entity Cache: src/server/app/utils/cache/hotel_cache.py                 *)
(* A hotel name is a sequence of characters.  An entry file holds          *)
(* cached_at and the two serialised dataclasses; the hotel_name, adults    *)
(* and rooms fields it also holds are never read back.                     *)
(***************************************************************************)
\* spellings of one hotel name
Names == {<<"a">>, <<"A">>, <<" ", "a", " ">>}
\* the (adults, rooms) arguments tried
Parties == {<<1, 1>>, <<2, 1>>, <<1, 2>>}
\* a (PropertyListing, HotelDetails) pair, as written by json.dump of the
\* two __dict__ and rebuilt by the two constructors
Payloads == {"p1", "p2"}
None == "None"
MaxAges == 0..MaxAgeHours

\* str.lower
LowerChar(c) == IF c = "A" THEN "a" ELSE IF c = "B" THEN "b" ELSE c
Lower(str) == [i \in 1..Len(str) |-> LowerChar(str[i])]

\* str.strip
RECURSIVE LStrip(_)
LStrip(str) ==
    IF str # <<>> /\ Head(str) = " " THEN LStrip(Tail(str)) ELSE str
RECURSIVE RStrip(_)
RStrip(str) ==
    IF str # <<>> /\ str[Len(str)] = " "
    THEN RStrip(SubSeq(str, 1, Len(str) - 1)) ELSE str
Strip(str) == RStrip(LStrip(str))

\* lines 13-18: md5 of f"{hotel_name.lower().strip()}_{adults}_{rooms}";
\* the digest is taken to be collision free, so the key is the hashed text
GenerateCacheKey_raw(hotel_name, adults, rooms) == <<hotel_name, adults, rooms>>
GenerateCacheKey(hotel_name, adults, rooms) ==
    <<Strip(Lower(hotel_name)), adults, rooms>>

\* the file names that can occur under SCRAPED_DATA_DIR
CacheKeys == {<<n, ar[1], ar[2]>> : n \in Names \cup {Strip(Lower(x)) : x \in Names},
                                    ar \in Parties}

AbsentFile == [status |-> "absent", cached_at |-> 0, payload |-> None]
CorruptFile == [status |-> "corrupt", cached_at |-> 0, payload |-> None]
EntryFile(t, p) == [status |-> "ok", cached_at |-> t, payload |-> p]

\* line 117: cache_age > timedelta(hours=max_age_hours)
CacheExpired_atboundary(cache_age, max_age_hours) == cache_age >= max_age_hours
CacheExpired(cache_age, max_age_hours) == cache_age > max_age_hours

\* lines 101-140: the value returned and the files left behind
GetCachedHotelData(files, t, hotel_name, adults, rooms, max_age_hours) ==
    LET cache_key == GenerateCacheKey(hotel_name, adults, rooms)
        f == files[cache_key]
    IN  IF f.status = "absent" THEN [ret |-> None, files |-> files]
        ELSE IF f.status = "corrupt" THEN [ret |-> None, files |-> files]
        ELSE IF CacheExpired(t - f.cached_at, max_age_hours)
             THEN [ret |-> None,
                   files |-> [files EXCEPT ![cache_key] = AbsentFile]]
             ELSE [ret |-> f.payload, files |-> files]

\* line 172: cached_at < cutoff_time
BeforeCutoff_orat(cached_at, cutoff_time) == cached_at <= cutoff_time
BeforeCutoff(cached_at, cutoff_time) == cached_at < cutoff_time

\* lines 160-179: one pass over the listed files; an unreadable file raises
\* inside the inner try and the loop continues with the next file
RECURSIVE SweepFiles_abort(_, _, _, _)
SweepFiles_abort(files, todo, cutoff_time, removed_count) ==
    IF todo = {} THEN [files |-> files, removed_count |-> removed_count]
    ELSE LET k == CHOOSE x \in todo : TRUE
             f == files[k]
         IN  IF f.status = "corrupt"
             THEN [files |-> files, removed_count |-> removed_count]
             ELSE IF BeforeCutoff(f.cached_at, cutoff_time)
             THEN SweepFiles_abort([files EXCEPT ![k] = AbsentFile], todo \ {k},
                                   cutoff_time, removed_count + 1)
             ELSE SweepFiles_abort(files, todo \ {k}, cutoff_time, removed_count)
RECURSIVE SweepFiles(_, _, _, _)
SweepFiles(files, todo, cutoff_time, removed_count) ==
    IF todo = {} THEN [files |-> files, removed_count |-> removed_count]
    ELSE LET k == CHOOSE x \in todo : TRUE
             f == files[k]
         IN  IF f.status = "ok" /\ BeforeCutoff(f.cached_at, cutoff_time)
             THEN SweepFiles([files EXCEPT ![k] = AbsentFile], todo \ {k},
                             cutoff_time, removed_count + 1)
             ELSE SweepFiles(files, todo \ {k}, cutoff_time, removed_count)

\* lines 153-188
ClearExpiredCache(files, t, max_age_hours) ==
    LET cutoff_time == t - max_age_hours
        listed == {k \in DOMAIN files : files[k].status # "absent"}
    IN  SweepFiles(files, listed, cutoff_time, 0)

EntityInputs ==
    /\ now = 0
    /\ ec_files = [k \in CacheKeys |-> AbsentFile]

EntityIdle ==
    /\ ec_files = [k \in CacheKeys |-> AbsentFile]

StoredKeys == {k \in CacheKeys : ec_files[k].status # "absent"}

\* lines 49-76: the files left behind by cache_hotel_data, which never
\* raises: when open() fails the file is left as it was, when json.dump
\* fails the file is left truncated
CacheHotelDataFiles(files, t, hotel_name, adults, rooms, payload, outcome) ==
    LET cache_key == GenerateCacheKey(hotel_name, adults, rooms)
    IN  [files EXCEPT ![cache_key] =
           IF outcome = "ok" THEN EntryFile(t, payload)
           ELSE IF outcome = "dump_failed" THEN CorruptFile
           ELSE @]

\* lines 28-76: cache_hotel_data
CacheHotelData(hotel_name, adults, rooms, payload) ==
    /\ \E outcome \in {"ok", "open_failed", "dump_failed"} :
         ec_files' = CacheHotelDataFiles(ec_files, now, hotel_name, adults,
                                         rooms, payload, outcome)
    /\ UNCHANGED now
    /\ UNCHANGED nonEntityVars

\* lines 79-140: get_cached_hotel_data
GetCached(hotel_name, adults, rooms, max_age_hours) ==
    /\ ec_files' = GetCachedHotelData(ec_files, now, hotel_name, adults, rooms,
                                      max_age_hours).files
    /\ UNCHANGED now
    /\ UNCHANGED nonEntityVars

\* lines 143-188: clear_expired_cache
ClearExpired(max_age_hours) ==
    /\ ec_files' = ClearExpiredCache(ec_files, now, max_age_hours).files
    /\ UNCHANGED now
    /\ UNCHANGED nonEntityVars

\* datetime.now() moves on between calls
EntityTick ==
    /\ now < MaxClock
    /\ now' = now + 1
    /\ UNCHANGED ec_files
    /\ UNCHANGED nonEntityVars

\* an entry file becomes unreadable (json.load or the cached_at lookup raises)
EntityCorrupt(k) ==
    /\ ec_files[k].status = "ok"
    /\ ec_files' = [ec_files EXCEPT ![k] = CorruptFile]
    /\ UNCHANGED now
    /\ UNCHANGED nonEntityVars

EntityNext ==
    \/ \E n \in Names, ar \in Parties, p \in Payloads :
         CacheHotelData(n, ar[1], ar[2], p)
    \/ \E n \in Names, ar \in Parties, m \in MaxAges :
         GetCached(n, ar[1], ar[2], m)
    \/ \E m \in MaxAges : ClearExpired(m)
    \/ EntityTick
    \/ \E k \in CacheKeys : EntityCorrupt(k)

(***************************************************************************)
(* Parameter Cache gate of scrape_general_data                             *)
(* src/server/app/scrapers/booking_com/orchestrator/scrape_general_data.py *)
(* One search (destination, adults, rooms, limit) is modelled; the key of  *)
(* the detail dataset varies with hotel_details_limit.  A dataset is the   *)
(* sequence of its rows, a row is named by its hotel.                      *)
(***************************************************************************)
Hotels == {"h1", "h2"}
\* what scrape_properties_data can return for the search, in page order
Listings == {<<>>, <<"h1", "h2">>}
DetailLimits == {0, 1}
\* force_fetch_delay is None
NoDelay == -1
Delays == {NoDelay} \cup 0..MaxDelayDays
\* specific_property_to_exclude is None
NoHotel == "None"
\* line 52: timedelta(days=7)
DefaultDelayDays == 7

NoCsv == [status |-> "absent", mtime |-> 0, rows |-> <<>>]
GarbageCsv(t) == [status |-> "garbage", mtime |-> t, rows |-> <<>>]

\* data.to_csv(file_path, index=False): a frame without rows has no columns
\* here (it is built from an empty list) and is written as one empty line
ToCsv(rows, t) ==
    IF rows = <<>> THEN [status |-> "blank", mtime |-> t, rows |-> <<>>]
    ELSE [status |-> "csv", mtime |-> t, rows |-> rows]

\* read_scraped_data_from_csv lines 24-35: pd.read_csv raises on a file with
\* no columns (EmptyDataError) and on an unreadable file; the error is re-raised
ReadScrapedDataFromCsv(file) ==
    IF file.status = "csv" THEN [ok |-> TRUE, rows |-> file.rows]
    ELSE [ok |-> FALSE, rows |-> <<>>]

\* line 52: (force_fetch_delay or timedelta(days=7)).total_seconds(); a zero
\* timedelta is falsy
DelaySeconds(force_fetch_delay) ==
    IF force_fetch_delay = NoDelay \/ force_fetch_delay = 0
    THEN DefaultDelayDays ELSE force_fetch_delay

\* lines 55-56 and 72-73: the cached file is tried
CacheGate(force_refetch, file, t, delay_seconds) ==
    /\ ~force_refetch
    /\ file.status # "absent"
    /\ (t - file.mtime) < delay_seconds

\* lines 60-69 and 77-88: the flag is set after the read has succeeded
FromCache_unread(tried, read_ok) == tried
FromCache(tried, read_ok) == tried /\ read_ok

\* lines 146-159 and 191-203: the rows that are not the excluded property
ExcludeSpecific(rows, exclude) ==
    IF exclude = NoHotel THEN rows
    ELSE SelectSeq(rows, LAMBDA h : h # exclude)

\* lines 176-183: the links to scrape
HotelUrlsToScrape(scraped_properties, hotel_details_limit) ==
    IF hotel_details_limit > 0
    THEN SubSeq(scraped_properties, 1,
                IF Len(scraped_properties) < hotel_details_limit
                THEN Len(scraped_properties) ELSE hotel_details_limit)
    ELSE scraped_properties

\* what the site and the file system do during one run: the listing the
\* site shows and at most one fault
Faults == {"none", "context", "nav", "listing", "fetch_h1", "save_props",
           "save_props_after_open", "save_details", "save_details_after_remove",
           "save_details_after_open", "close"}
Env(fault, listing) ==
    [context_ok |-> fault # "context",                  \* lines 91-98
     nav |-> IF fault = "nav" THEN "failed" ELSE "ok",  \* lines 103-132
     listing_raises |-> fault = "listing",              \* line 144
     listing |-> listing,                               \* line 144
     failed_urls |-> IF fault = "fetch_h1" THEN {"h1"} ELSE {},  \* line 188
     save_props |-> IF fault = "save_props" THEN "failed"        \* line 164
                    ELSE IF fault = "save_props_after_open"
                         THEN "failed_after_open" ELSE "ok",
     save_details |-> IF fault = "save_details" THEN "failed"    \* line 215
                      ELSE IF fault = "save_details_after_remove"
                           THEN "failed_after_remove"
                           ELSE IF fault = "save_details_after_open"
                                THEN "failed_after_open" ELSE "ok",
     close_ok |-> fault # "close"]                      \* lines 226-227
Envs == {Env(f, l) : f \in Faults, l \in Listings}

\* the variables of one call of the coroutine and the await it is suspended
\* at: "open" (lines 91-132), "listing" (line 144), "details" (line 188),
\* "close" (lines 226-227); "returned" and "raised" end the call.  pending
\* is the exception of the try block of lines 100-223, which waits for the
\* finally block to be done
GeneralCall(pc, hotel_details_limit, force_refetch, exclude, from_cache, rows) ==
    [pc |-> pc,
     hotel_details_limit |-> hotel_details_limit,
     force_refetch |-> force_refetch,
     exclude |-> exclude,
     properties_from_cache |-> from_cache[1],
     hotel_details_from_cache |-> from_cache[2],
     scraped_properties |-> rows[1],
     hotel_details_data |-> rows[2],
     scrape_details |-> FALSE,
     concurrent_called |-> FALSE,
     hotel_urls_to_scrape |-> <<>>,
     pending |-> FALSE]

\* line 90
Fresh(c) ==
    ~c.properties_from_cache \/ ~c.hotel_details_from_cache \/ c.force_refetch
\* line 100
ScrapeProps(c) == ~c.properties_from_cache \/ c.force_refetch
\* line 170
ScrapeDetails(c) == ~c.hotel_details_from_cache \/ c.force_refetch

\* a call together with the files it reads and writes
GeneralState(c, pf, dfs, url_cached) ==
    [call |-> c, props_file |-> pf, details_files |-> dfs,
     url_cached |-> url_cached]

\* lines 42-90: the two cache gates, run without an await when the call starts
GeneralGate(pf, dfs, t, hotel_details_limit, force_refetch, force_fetch_delay, exclude) ==
    LET df == dfs[hotel_details_limit]
        delay_seconds == DelaySeconds(force_fetch_delay)
        p_read == ReadScrapedDataFromCsv(pf)
        properties_from_cache ==
            FromCache(CacheGate(force_refetch, pf, t, delay_seconds), p_read.ok)
        d_read == ReadScrapedDataFromCsv(df)
        hotel_details_from_cache ==
            FromCache(CacheGate(force_refetch, df, t, delay_seconds), d_read.ok)
        fresh == ~properties_from_cache \/ ~hotel_details_from_cache
                    \/ force_refetch
    IN  GeneralCall(IF fresh THEN "open" ELSE "returned", hotel_details_limit,
                    force_refetch, exclude,
                    <<properties_from_cache, hotel_details_from_cache>>,
                    <<IF properties_from_cache THEN p_read.rows ELSE <<>>,
                      IF hotel_details_from_cache THEN d_read.rows ELSE <<>>>>)

\* lines 161-168: save_scraped_data_to_csv (lines 29-41 of its file) and its
\* swallowed failure.  The function raises before to_csv opens the file
\* ("failed": the file is as it was) or to_csv raises after it has opened
\* the file for writing ("failed_after_open": the file is left emptied,
\* stamped with the time of the attempt, and pd.read_csv raises on it)
SaveProps(file, rows, t, save_props) ==
    IF save_props = "ok" THEN ToCsv(rows, t)
    ELSE IF save_props = "failed_after_open" THEN GarbageCsv(t)
    ELSE file

\* lines 214-223: save_hotel_detail_data_to_csv (lines 29-49 of its file) and
\* its swallowed failure; an existing file is removed before to_csv opens
\* the path ("failed_after_remove": the open failed after the os.remove)
SaveDetails(dfs, hotel_details_limit, rows, t, save_details) ==
    [dfs EXCEPT ![hotel_details_limit] =
        IF save_details = "ok" THEN ToCsv(rows, t)
        ELSE IF save_details = "failed_after_remove" THEN NoCsv
        ELSE IF save_details = "failed_after_open" THEN GarbageCsv(t)
        ELSE @]

\* lines 170-223 as far as they run without an await: with properties to
\* scrape details for the call is suspended at line 188, without any the
\* empty detail dataset is saved at once
EnterDetails(s, t, save_details) ==
    IF ~ScrapeDetails(s.call)
    THEN [s EXCEPT !.call.pc = "close"]
    ELSE IF s.call.scraped_properties # <<>>
    THEN [s EXCEPT !.call.pc = "details",
                   !.call.scrape_details = TRUE,
                   !.call.concurrent_called = TRUE,
                   !.call.hotel_urls_to_scrape =
                       HotelUrlsToScrape(s.call.scraped_properties,
                                         s.call.hotel_details_limit)]
    ELSE [s EXCEPT !.call.pc = "close",
                   !.call.scrape_details = TRUE,
                   !.call.hotel_details_data = <<>>,
                   !.details_files =
                       SaveDetails(@, s.call.hotel_details_limit, <<>>, t,
                                   save_details)]

\* lines 226-227 reached with an exception of the try block: the call is
\* suspended in page.close() and raises when the finally block is done
Unwind(s) == [s EXCEPT !.call.pc = "close", !.call.pending = TRUE]

\* lines 91-142: the context and the page are made (outside the try block)
\* and, for the properties, the search page is reached; cache_url runs
\* before the await of line 144
OpenStep(s, t, context_ok, nav, save_details) ==
    IF ~context_ok THEN [s EXCEPT !.call.pc = "raised"]
    ELSE IF ScrapeProps(s.call) /\ nav = "failed" THEN Unwind(s)
    ELSE IF ScrapeProps(s.call)
    THEN [s EXCEPT !.call.pc = "listing", !.url_cached = TRUE]
    ELSE EnterDetails(s, t, save_details)

\* lines 144-168, then the detail part: scrape_properties_data returns or
\* raises; the listing is filtered and saved
ListingStep(s, t, listing_raises, listing, save_props, save_details) ==
    IF listing_raises THEN Unwind(s)
    ELSE EnterDetails(
             [s EXCEPT !.call.scraped_properties =
                           ExcludeSpecific(listing, s.call.exclude),
                       !.props_file =
                           SaveProps(@, ExcludeSpecific(listing, s.call.exclude),
                                     t, save_props)],
             t, save_details)

\* lines 188-223: scrape_hotel_data_concurrent has returned
DetailsStep(s, t, failed_urls, save_details) ==
    LET general_hotel_details ==
            ExcludeSpecific(
                SelectSeq(s.call.hotel_urls_to_scrape,
                          LAMBDA h : h \notin failed_urls),
                s.call.exclude)
        hotel_details_data ==
            IF s.call.hotel_details_limit = 0 THEN <<>>
            ELSE general_hotel_details
    IN  [s EXCEPT !.call.pc = "close",
                  !.call.hotel_details_data = hotel_details_data,
                  !.details_files =
                      SaveDetails(@, s.call.hotel_details_limit,
                                  hotel_details_data, t, save_details)]

\* lines 225-232: the page and the context are closed; the call returns
\* when nothing was raised, in the try block or by a close
CloseStep(s, close_ok) ==
    [s EXCEPT !.call.pc = IF close_ok /\ ~s.call.pending THEN "returned"
                          ELSE "raised"]

\* the call runs from the await it is suspended at to its next one
Advance(s, t, env) ==
    IF s.call.pc = "open"
    THEN OpenStep(s, t, env.context_ok, env.nav, env.save_details)
    ELSE IF s.call.pc = "listing"
    THEN ListingStep(s, t, env.listing_raises, env.listing, env.save_props,
                     env.save_details)
    ELSE IF s.call.pc = "details"
    THEN DetailsStep(s, t, env.failed_urls, env.save_details)
    ELSE IF s.call.pc = "close"
    THEN CloseStep(s, env.close_ok)
    ELSE s

\* what the call returned or raised, and the files it left
GeneralResult(s) ==
    [raised |-> s.call.pc = "raised",
     properties_from_cache |-> s.call.properties_from_cache,
     hotel_details_from_cache |-> s.call.hotel_details_from_cache,
     fresh |-> Fresh(s.call),
     scrape_props |-> ScrapeProps(s.call),
     scrape_details |-> s.call.scrape_details,
     concurrent_called |-> s.call.concurrent_called,
     hotel_urls_to_scrape |-> s.call.hotel_urls_to_scrape,
     scraped_properties |->
         IF s.call.pc = "raised" THEN <<>> ELSE s.call.scraped_properties,
     hotel_details_data |->
         IF s.call.pc = "raised" THEN <<>> ELSE s.call.hotel_details_data,
     props_file |-> s.props_file,
     details_files |-> s.details_files,
     url_cached |-> s.url_cached]

\* lines 42-232: one call of scrape_general_data during which no other
\* coroutine touches the files and the clock stands
ScrapeGeneralData(pf, dfs, url_cached, t, hotel_details_limit, force_refetch, force_fetch_delay, exclude, env) ==
    GeneralResult(
        Advance(
            Advance(
                Advance(
                    Advance(
                        GeneralState(
                            GeneralGate(pf, dfs, t, hotel_details_limit,
                                        force_refetch, force_fetch_delay,
                                        exclude),
                            pf, dfs, url_cached),
                        t, env),
                    t, env),
                t, env),
            t, env))

ParamInputs ==
    /\ now = 0
    /\ pc_props_file = NoCsv
    /\ pc_details_files = [l \in DetailLimits |-> NoCsv]
    /\ pc_url_cached = FALSE
    /\ pc_calls = EmptyBag

ParamIdle ==
    /\ pc_props_file = NoCsv
    /\ pc_details_files = [l \in DetailLimits |-> NoCsv]
    /\ pc_url_cached = FALSE
    /\ pc_calls = EmptyBag

\* the files as the suspended call c finds them when it resumes
Resumed(c) == GeneralState(c, pc_props_file, pc_details_files, pc_url_cached)

\* the call c of the bag has gone on to c1; a call that ended leaves the bag
Moved(calls, c, c1) ==
    IF c1.pc \in {"returned", "raised"} THEN calls (-) SetToBag({c})
    ELSE (calls (-) SetToBag({c})) (+) SetToBag({c1})

\* the files and the bag of calls after the call c went from Resumed(c) to s
GeneralStepTo(c, s) ==
    /\ pc_props_file' = s.props_file
    /\ pc_details_files' = s.details_files
    /\ pc_url_cached' = s.url_cached
    /\ pc_calls' = Moved(pc_calls, c, s.call)
    /\ UNCHANGED now
    /\ UNCHANGED nonParamVars

\* the calls that overlap on one event loop: overlapping calls are tried
\* where they start together, with the same arguments, in a directory that
\* holds no file yet
Together(call) ==
    /\ BagCardinality(pc_calls) < MaxCallers
    /\ \A c \in BagToSet(pc_calls) : c = call
    /\ pc_props_file = NoCsv
    /\ \A l \in DetailLimits : pc_details_files[l] = NoCsv
    /\ ~pc_url_cached

\* lines 42-91: a call of scrape_general_data starts; served from the cache
\* it returns at once, otherwise it is suspended at line 91
GeneralBegin(hotel_details_limit, force_refetch, force_fetch_delay, exclude) ==
    /\ \E c \in {GeneralGate(pc_props_file, pc_details_files, now,
                             hotel_details_limit, force_refetch,
                             force_fetch_delay, exclude)} :
         /\ pc_calls # EmptyBag => Together(c)
         /\ pc_calls' = IF c.pc = "returned" THEN pc_calls
                        ELSE pc_calls (+) SetToBag({c})
    /\ UNCHANGED <<pc_props_file, pc_details_files, pc_url_cached, now>>
    /\ UNCHANGED nonParamVars

\* lines 91-142
GeneralOpened(c, context_ok, nav, save_details) ==
    /\ c.pc = "open"
    /\ GeneralStepTo(c, OpenStep(Resumed(c), now, context_ok, nav, save_details))

\* lines 144-168
GeneralListed(c, listing_raises, listing, save_props, save_details) ==
    /\ c.pc = "listing"
    /\ GeneralStepTo(c, ListingStep(Resumed(c), now, listing_raises, listing,
                                    save_props, save_details))

\* lines 188-223
GeneralDetailed(c, failed_urls, save_details) ==
    /\ c.pc = "details"
    /\ GeneralStepTo(c, DetailsStep(Resumed(c), now, failed_urls, save_details))

\* lines 225-232
GeneralClosed(c, close_ok) ==
    /\ c.pc = "close"
    /\ GeneralStepTo(c, CloseStep(Resumed(c), close_ok))

\* the outcomes of the two save functions
SavePropsOutcomes == {"ok", "failed", "failed_after_open"}
SaveDetailsOutcomes == {"ok", "failed", "failed_after_remove",
                        "failed_after_open"}

\* time.time() moves on between runs
ParamTick ==
    /\ now < MaxClock
    /\ now' = now + 1
    /\ UNCHANGED paramVars
    /\ UNCHANGED nonParamVars

\* a cached csv file becomes unreadable
PropsFileUnreadable ==
    /\ pc_props_file.status \in {"csv", "blank"}
    /\ pc_props_file' = GarbageCsv(pc_props_file.mtime)
    /\ UNCHANGED <<pc_details_files, pc_url_cached, pc_calls, now>>
    /\ UNCHANGED nonParamVars

DetailsFileUnreadable(l) ==
    /\ pc_details_files[l].status \in {"csv", "blank"}
    /\ pc_details_files' =
         [pc_details_files EXCEPT ![l] = GarbageCsv(pc_details_files[l].mtime)]
    /\ UNCHANGED <<pc_props_file, pc_url_cached, pc_calls, now>>
    /\ UNCHANGED nonParamVars

ParamNext ==
    \/ \E l \in DetailLimits, force \in BOOLEAN, d \in Delays,
          x \in {NoHotel, "h1"} :
         GeneralBegin(l, force, d, x)
    \/ \E c \in BagToSet(pc_calls), context_ok \in BOOLEAN,
          nav \in {"ok", "failed"}, sd \in SaveDetailsOutcomes :
         GeneralOpened(c, context_ok, nav, sd)
    \/ \E c \in BagToSet(pc_calls), raises \in BOOLEAN, listing \in Listings,
          sp \in SavePropsOutcomes, sd \in SaveDetailsOutcomes :
         GeneralListed(c, raises, listing, sp, sd)
    \/ \E c \in BagToSet(pc_calls), failed_urls \in {{}, {"h1"}},
          sd \in SaveDetailsOutcomes :
         GeneralDetailed(c, failed_urls, sd)
    \/ \E c \in BagToSet(pc_calls), close_ok \in BOOLEAN : GeneralClosed(c, close_ok)
    \/ ParamTick
    \/ PropsFileUnreadable
    \/ \E l \in DetailLimits : DetailsFileUnreadable(l)

(***************************************************************************)
(* Retraining decision                                                     *)
(* src/app/prediction/model_utils/should_retrain_model.py                  *)
(* src/app/prediction/model_utils/load_model_metadata.py                   *)
(* src/app/prediction/model_utils/save_model_metadata.py                   *)
(* src/server/app/prediction/training/advanced_trainer.py                  *)
(* One model file name is modelled.  A metadata dict is a function from    *)
(* the keys it holds to their values; the clock counts days.               *)
(***************************************************************************)
MetaKeys == {"last_trained_at", "trained_properties_count",
             "trained_hotel_details_count"}
Counts == 0..MaxCount
ModelAges == 0..MaxModelAgeDays
\* min_data_increase_ratio in hundredths: 0.1, 0.5, 1.0
RatioPcts == {10, 50, 100}
\* a last_trained_at that json.load gives back as None
NullStamp == -1
EmptyDict == [k \in {} |-> 0]

\* the dicts a metadata file can hold at time t
MetadataDicts(t) ==
    {m \in UNION {[S -> {NullStamp} \cup 0..MaxClock \cup Counts] :
                     S \in SUBSET MetaKeys} :
        /\ "last_trained_at" \in DOMAIN m
             => m["last_trained_at"] \in {NullStamp} \cup 0..t
        /\ \A k \in DOMAIN m \ {"last_trained_at"} : m[k] \in Counts}

NoMetadataFile == [status |-> "absent", dict |-> EmptyDict]
UndecodableFile == [status |-> "undecodable", dict |-> EmptyDict]
JsonFile(m) == [status |-> "json", dict |-> m]

\* load_model_metadata lines 19-27
LoadModelMetadata(file) ==
    IF file.status = "json" THEN file.dict ELSE EmptyDict

\* dict.get(key, default)
MetaGet(m, k, default) == IF k \in DOMAIN m THEN m[k] ELSE default

\* lines 31-35: not metadata
NotMetadata(m) == DOMAIN m = {}

\* line 44: datetime.now() - last_trained_at > timedelta(days=max_model_age_days)
Stale_atboundary(model_age, max_model_age_days) == model_age >= max_model_age_days
Stale(model_age, max_model_age_days) == model_age > max_model_age_days

\* lines 42-53: the age check; "continue" falls through to the count rules
AgeRule_lenient(last_trained_str, t, max_model_age_days) ==
    IF last_trained_str # NullStamp /\ Stale(t - last_trained_str, max_model_age_days)
    THEN "retrain" ELSE "continue"
AgeRule(last_trained_str, t, max_model_age_days) ==
    IF last_trained_str # NullStamp
    THEN IF Stale(t - last_trained_str, max_model_age_days)
         THEN "retrain" ELSE "continue"
    ELSE "retrain"

\* lines 70-73: (current - trained) / trained > min_data_increase_ratio,
\* both sides of the comparison scaled by 100 * trained (trained > 0)
RatioExceeds_atthreshold(total_current, total_trained, ratio_pct) ==
    (total_current - total_trained) * 100 >= ratio_pct * total_trained
RatioExceeds(total_current, total_trained, ratio_pct) ==
    (total_current - total_trained) * 100 > ratio_pct * total_trained

\* line 59: which count rule applies, the zero rule of lines 60-68 or the
\* ratio rule of lines 70-84
CountRulePath_noguard(total_trained_data_points) == "ratio"
CountRulePath(total_trained_data_points) ==
    IF total_trained_data_points = 0 THEN "zero" ELSE "ratio"

\* lines 70-72: the division raises ZeroDivisionError
DivisionRaises(total_trained_data_points) ==
    CountRulePath(total_trained_data_points) = "ratio"
        /\ total_trained_data_points = 0

\* lines 56-84: the count rules
CountRule(total_trained_data_points, total_current_data_points, ratio_pct) ==
    IF CountRulePath(total_trained_data_points) = "zero"
    THEN total_current_data_points > 0
    ELSE RatioExceeds(total_current_data_points, total_trained_data_points,
                      ratio_pct)

\* should_retrain_model lines 29-84
ShouldRetrainModel(file, t, current_properties_count, current_hotel_details_count, ratio_pct, max_model_age_days) ==
    LET metadata == LoadModelMetadata(file)
        last_trained_str == MetaGet(metadata, "last_trained_at", NullStamp)
        trained_properties_count ==
            MetaGet(metadata, "trained_properties_count", 0)
        trained_hotel_details_count ==
            MetaGet(metadata, "trained_hotel_details_count", 0)
    IN  IF NotMetadata(metadata) THEN TRUE
        ELSE IF AgeRule(last_trained_str, t, max_model_age_days) = "retrain"
        THEN TRUE
        ELSE CountRule(trained_properties_count + trained_hotel_details_count,
                       current_properties_count + current_hotel_details_count,
                       ratio_pct)

\* should_retrain_model ends with an exception instead of a value
ShouldRetrainModelRaises(file, t, max_model_age_days) ==
    LET metadata == LoadModelMetadata(file)
        last_trained_str == MetaGet(metadata, "last_trained_at", NullStamp)
    IN  /\ ~NotMetadata(metadata)
        /\ AgeRule(last_trained_str, t, max_model_age_days) = "continue"
        /\ DivisionRaises(MetaGet(metadata, "trained_properties_count", 0)
                          + MetaGet(metadata, "trained_hotel_details_count", 0))

\* constants.py: ML_MODEL_DIR = "./ml_files"
MlModelDir == <<"ml_files">>
\* os.makedirs(d, exist_ok=True)
Makedirs(dirs, d) == dirs \cup {SubSeq(d, 1, k) : k \in 1..Len(d)}

NoDecision == [op |-> "none", properties |-> 0, details |-> 0,
               ratio_pct |-> 0, max_age |-> 0, result |-> FALSE,
               raised |-> FALSE]

\* a metadata file lies in ML_MODEL_DIR
RetrainInputs ==
    /\ now = 0
    /\ rt_file \in {NoMetadataFile, UndecodableFile}
                     \cup {JsonFile(m) : m \in MetadataDicts(0)}
    /\ rt_decision = NoDecision
    /\ ml_dirs \in {{}, {MlModelDir}}
    /\ rt_file # NoMetadataFile => ml_dirs = {MlModelDir}

RetrainIdle ==
    /\ rt_file = NoMetadataFile
    /\ rt_decision = NoDecision
    /\ ml_dirs = {}

\* one call of should_retrain_model
ShouldRetrain(cp, ch, ratio_pct, max_age) ==
    /\ rt_decision' =
         [op |-> "decide", properties |-> cp, details |-> ch,
          ratio_pct |-> ratio_pct, max_age |-> max_age,
          result |-> ShouldRetrainModel(rt_file, now, cp, ch, ratio_pct, max_age),
          raised |-> ShouldRetrainModelRaises(rt_file, now, max_age)]
    /\ UNCHANGED <<rt_file, ml_dirs, now>>
    /\ UNCHANGED nonRetrainVars

\* save_model_metadata lines 20-25: open(metadata_path, "w") raises and the
\* file is as it was ("open_failed"), or the file is opened, which empties
\* it, and json.dump or the closing flush raises ("write_failed"); either
\* IOError is logged and dropped
MetadataWrites == {"ok", "open_failed", "write_failed"}
WriteMetadata(file, metadata, write) ==
    IF write = "ok" THEN JsonFile(metadata)
    ELSE IF write = "write_failed" THEN UndecodableFile
    ELSE file

\* scrape_booking_com_data lines 162-169 and save_model_metadata lines 18-25:
\* ML_MODEL_DIR is made, then the metadata of a training run is written
SaveModelMetadata(cp, ch, write) ==
    /\ ml_dirs' = Makedirs(ml_dirs, MlModelDir)
    /\ rt_file' =
         WriteMetadata(rt_file,
                       [k \in MetaKeys |->
                          IF k = "last_trained_at" THEN now
                          ELSE IF k = "trained_properties_count" THEN cp
                          ELSE ch],
                       write)
    /\ rt_decision' = NoDecision
    /\ UNCHANGED now
    /\ UNCHANGED nonRetrainVars

\* advanced_trainer.py lines 238-245: get_model_filepath with
\* hotel_details_limit 0 and the name of the advanced model
AdvancedModelFileName == "Unawatuna_2_1_100_0_advanced_price_predictor"

\* train_advanced_model (advanced_trainer.py lines 16-298): it raises before
\* line 247 or makes the directory of the advanced model below ML_MODEL_DIR
TrainAdvancedModel(raises_before) ==
    /\ ml_dirs' = IF raises_before THEN ml_dirs
                  ELSE Makedirs(ml_dirs, MlModelDir \o <<AdvancedModelFileName>>)
    /\ UNCHANGED <<rt_file, rt_decision, now>>
    /\ UNCHANGED nonRetrainVars

\* price_model.py lines 223-225 and 569-571: base_path is
\* ./ml_files/{destination}/{adults}/{rooms}/{limit}/{model_name}
PriceModelNames == {"price_predictor", "advanced_price_predictor"}
PriceModelBasePath(model_name) ==
    MlModelDir \o <<"Unawatuna", "2", "1", "100", model_name>>

\* datetime.now() moves on
RetrainTick ==
    /\ now < MaxClock
    /\ now' = now + 1
    /\ rt_decision' = NoDecision
    /\ UNCHANGED <<rt_file, ml_dirs>>
    /\ UNCHANGED nonRetrainVars

\* the metadata file stops being valid JSON
MetadataUndecodable ==
    /\ rt_file.status = "json"
    /\ rt_file' = UndecodableFile
    /\ rt_decision' = NoDecision
    /\ UNCHANGED <<now, ml_dirs>>
    /\ UNCHANGED nonRetrainVars

\* the counts of a metadata dict matter when the dict is written
WrittenCounts(write) == IF write = "ok" THEN Counts ELSE {0}

RetrainNext ==
    \/ \E cp \in Counts, ch \in Counts, r \in RatioPcts, a \in ModelAges :
         ShouldRetrain(cp, ch, r, a)
    \/ \E w \in MetadataWrites :
         \E cp \in WrittenCounts(w), ch \in WrittenCounts(w) :
            SaveModelMetadata(cp, ch, w)
    \/ \E raises_before \in BOOLEAN : TrainAdvancedModel(raises_before)
    \/ RetrainTick
    \/ MetadataUndecodable

(***************************************************************************)
(* Specific property resolution                                            *)
(* src/server/app/scrapers/booking_com/extractors/                         *)
(*     specific_property_extractor.py                                      *)
(* A card is its title (or no title element); the similarity score is      *)
(* difflib.SequenceMatcher(None, a, b).ratio(), kept as the fraction       *)
(* <<2 * matches, len(a) + len(b)>>.                                       *)
(***************************************************************************)
\* the length of the common run of a from i and b from j, inside a[..ahi], b[..bhi]
RECURSIVE MatchLen(_, _, _, _, _, _)
MatchLen(a, b, i, j, ahi, bhi) ==
    IF i > ahi \/ j > bhi \/ a[i] # b[j] THEN 0
    ELSE 1 + MatchLen(a, b, i + 1, j + 1, ahi, bhi)

\* difflib find_longest_match(alo, ahi, blo, bhi): of the longest matching
\* blocks the one that starts earliest in a, then earliest in b (strings
\* shorter than 200 characters have no junk)
FindLongestMatch(a, b, alo, ahi, blo, bhi) ==
    LET blocks == {<<i, j>> : i \in alo..ahi, j \in blo..bhi}
        size(p) == MatchLen(a, b, p[1], p[2], ahi, bhi)
        best == CHOOSE p \in blocks :
                   \A q \in blocks :
                      \/ size(p) > size(q)
                      \/ size(p) = size(q) /\ p[1] < q[1]
                      \/ size(p) = size(q) /\ p[1] = q[1] /\ p[2] <= q[2]
    IN  IF blocks = {} THEN [i |-> alo, j |-> blo, k |-> 0]
        ELSE [i |-> best[1], j |-> best[2], k |-> size(best)]

\* difflib get_matching_blocks: the total size of the matching blocks
RECURSIVE Matches(_, _, _, _, _, _)
Matches(a, b, alo, ahi, blo, bhi) ==
    LET m == FindLongestMatch(a, b, alo, ahi, blo, bhi)
    IN  IF m.k = 0 THEN 0
        ELSE m.k + Matches(a, b, alo, m.i - 1, blo, m.j - 1)
                 + Matches(a, b, m.i + m.k, ahi, m.j + m.k, bhi)

\* difflib ratio(): 2.0 * matches / length, 1.0 when both strings are empty
Ratio(a, b) ==
    IF Len(a) + Len(b) = 0 THEN <<1, 1>>
    ELSE <<2 * Matches(a, b, 1, Len(a), 1, Len(b)), Len(a) + Len(b)>>

\* comparisons of two scores
ScoreGreater(x, y) == x[1] * y[2] > y[1] * x[2]
ScoreAtLeast(x, y) == x[1] * y[2] >= y[1] * x[2]

\* line 69: num_cards_to_check = min(count, 5)
ScanCap_all == MaxCards + 1
ScanCap == 5
\* line 88: SIMILARITY_THRESHOLD = 0.5
SimilarityThreshold == <<1, 2>>
\* hotel_cache.py line 83: max_age_hours: int = 24
DefaultMaxAgeHours == 24
\* the adults and rooms arguments of the modelled calls
SpAdults == 1
SpRooms == 1

SpTargets == {<<"A">>, <<" ", "a", " ">>}
NoTitle == [has_title |-> FALSE, text |-> <<>>]
Title(text) == [has_title |-> TRUE, text |-> text]
Cards == {NoTitle, Title(<<"A", " ">>), Title(<<"a", "x", "x">>), Title(<<"x">>)}
CardLists == UNION {[1..n -> Cards] : n \in 0..MaxCards}

\* lines 76-79: the score of every card title against every target,
\* computed once
ScoreTable ==
    [target_hotel_name \in SpTargets |->
        [card \in Cards |-> Ratio(Lower(target_hotel_name), Lower(Strip(card.text)))]]
SimilarityScore(target_hotel_name, card) == ScoreTable[target_hotel_name][card]

\* line 83: the running maximum is replaced
Improves_orties(similarity_score, best_match_score) ==
    ScoreAtLeast(similarity_score, best_match_score)
Improves(similarity_score, best_match_score) ==
    ScoreGreater(similarity_score, best_match_score)

NoBest == [card |-> 0, score |-> <<0, 1>>]

\* lines 72-86: the loop over cards i..n (cards.nth is 0-based in the code,
\* positions are 1-based here); best.card = 0 is best_match_card = None
RECURSIVE ScanCards(_, _, _, _, _)
ScanCards(cards, target_hotel_name, i, n, best) ==
    IF i > n THEN best
    ELSE LET score == SimilarityScore(target_hotel_name, cards[i])
             next == IF cards[i].has_title /\ Improves(score, best.score)
                     THEN [card |-> i, score |-> score]
                     ELSE best
         IN  ScanCards(cards, target_hotel_name, i + 1, n, next)

Min(a, b) == IF a < b THEN a ELSE b

\* lines 65-86
BestMatch(cards, target_hotel_name) ==
    ScanCards(cards, target_hotel_name, 1, Min(Len(cards), ScanCap), NoBest)

\* line 89: best_match_card and best_match_score >= SIMILARITY_THRESHOLD
Accepted_any(best) == best.card # 0
Accepted(best) == best.card # 0 /\ ScoreAtLeast(best.score, SimilarityThreshold)

\* what the site and the file system do during one call, at most one fault
SpEnvs == {"ok", "nav_failed", "extract_raises", "extract_none", "no_link",
           "details_raise", "details_none", "cache_open_failed",
           "cache_dump_failed"}

\* lines 40-44: the cached data is returned
CacheHit(use_cache, cached_data) == use_cache /\ cached_data # None

\* hotel_cache.py lines 49-76 under the fault of the call
CacheWriteOutcome(env) ==
    IF env = "cache_open_failed" THEN "open_failed"
    ELSE IF env = "cache_dump_failed" THEN "dump_failed"
    ELSE "ok"

NoOutcome == [kind |-> "none", error |-> "", selected |-> 0, navigated |-> FALSE,
              listing |-> FALSE, details |-> FALSE]
Outcome(kind, error, selected, navigated, listing, details) ==
    [kind |-> kind, error |-> error, selected |-> selected,
     navigated |-> navigated, listing |-> listing, details |-> details]

\* lines 37-45: the lookup the call starts with; no await precedes it
SpecificLookup(files, t, target_hotel_name, use_cache) ==
    LET lookup == GetCachedHotelData(files, t, target_hotel_name, SpAdults,
                                     SpRooms, DefaultMaxAgeHours)
    IN  [hit |-> CacheHit(use_cache, lookup.ret),
         files |-> IF use_cache THEN lookup.files ELSE files]

\* lines 48-126: the page work of a call that was not served from the cache,
\* from the awaits of the navigation to the return or raise; files and t are
\* the entry files and the time when the call resumes for the last time
\* (line 104 follows the await of line 98)
SpecificPage(files, t, target_hotel_name, cards, env) ==
    LET best == BestMatch(cards, target_hotel_name)
    IN  IF env = "nav_failed"                                   \* lines 49-56
        THEN [outcome |-> Outcome("raised", "navigation", 0, TRUE, FALSE, FALSE),
              files |-> files]
        ELSE IF cards = <<>>                                    \* line 57
        THEN [outcome |-> Outcome("raised", "timeout", 0, TRUE, FALSE, FALSE),
              files |-> files]
        ELSE IF ~Accepted(best)                                 \* lines 123-126
        THEN [outcome |-> Outcome("raised", "not_found", 0, TRUE, FALSE, FALSE),
              files |-> files]
        ELSE IF env \in {"extract_raises", "details_raise"}     \* lines 119-122
        THEN [outcome |-> Outcome("raised", "scrape", best.card, TRUE, FALSE, FALSE),
              files |-> files]
        ELSE IF env \in {"extract_none", "no_link"}             \* lines 113-117
        THEN [outcome |-> Outcome("returned", "", best.card, TRUE, FALSE, FALSE),
              files |-> files]
        ELSE IF env = "details_none"                            \* lines 98-112
        THEN [outcome |-> Outcome("returned", "", best.card, TRUE, TRUE, FALSE),
              files |-> files]
        ELSE [outcome |-> Outcome("returned", "", best.card, TRUE, TRUE, TRUE),
              files |-> CacheHotelDataFiles(files, t, target_hotel_name,
                                            SpAdults, SpRooms, "p1",
                                            CacheWriteOutcome(env))]

\* the call goes on after the lookup
AfterLookup(lookup, t, target_hotel_name, cards, env) ==
    IF lookup.hit                                               \* lines 42-44
    THEN [outcome |-> Outcome("cached", "", 0, FALSE, TRUE, TRUE),
          files |-> lookup.files]
    ELSE SpecificPage(lookup.files, t, target_hotel_name, cards, env)

\* lines 17-126: one call of scrape_specific_property_data during which no
\* other coroutine touches the entry files and the clock stands
ScrapeSpecificPropertyData(files, t, target_hotel_name, cards, use_cache, env) ==
    AfterLookup(SpecificLookup(files, t, target_hotel_name, use_cache), t,
                target_hotel_name, cards, env)

\* the calls that overlap on one event loop: overlapping calls are tried on
\* result pages of at most one card, longer pages by one call at a time
Callers(cards) == IF Len(cards) <= 1 THEN MaxCallers ELSE 1

ResolveInputs ==
    /\ now = 0
    /\ ec_files = [k \in CacheKeys |-> AbsentFile]
    /\ sp_target \in SpTargets
    /\ sp_cards \in CardLists
    /\ sp_outcome = NoOutcome
    /\ sp_calls = 0

ResolveIdle ==
    /\ sp_target = <<>>
    /\ sp_cards = <<>>
    /\ sp_outcome = NoOutcome
    /\ sp_calls = 0

\* lines 37-49: a call of scrape_specific_property_data starts; it returns
\* the cached data at once, or is suspended at its first await
SpecificBegin(use_cache) ==
    /\ sp_calls < Callers(sp_cards)
    /\ \E lookup \in {SpecificLookup(ec_files, now, sp_target, use_cache)} :
         /\ ec_files' = lookup.files
         /\ IF lookup.hit
            THEN /\ sp_outcome' = Outcome("cached", "", 0, FALSE, TRUE, TRUE)
                 /\ UNCHANGED sp_calls
            ELSE /\ sp_calls' = sp_calls + 1
                 /\ UNCHANGED sp_outcome
    /\ UNCHANGED <<sp_target, sp_cards, now>>
    /\ UNCHANGED nonResolveVars

\* lines 49-126: a suspended call resumes for the last time, writes the
\* entry when it scraped both and returns or raises
SpecificEnd(env) ==
    /\ sp_calls > 0
    /\ \E r \in {SpecificPage(ec_files, now, sp_target, sp_cards, env)} :
         /\ sp_outcome' = r.outcome
         /\ ec_files' = r.files
    /\ sp_calls' = sp_calls - 1
    /\ UNCHANGED <<sp_target, sp_cards, now>>
    /\ UNCHANGED nonResolveVars

ResolveNext ==
    \/ \E use_cache \in BOOLEAN : SpecificBegin(use_cache)
    \/ \E env \in SpEnvs : SpecificEnd(env)

\* the calls made on one short result page while datetime.now() moves on
ResolveCacheInputs ==
    /\ ResolveInputs
    /\ Len(sp_cards) <= 1

ResolveTick ==
    /\ now < MaxClock
    /\ now' = now + 1
    /\ UNCHANGED <<ec_files, sp_target, sp_cards, sp_outcome, sp_calls>>
    /\ UNCHANGED nonResolveVars

ResolveCacheNext ==
    \/ ResolveNext
    \/ ResolveTick

(***************************************************************************)
(* Price parsing                                                           *)
(* src/app/scrapers/booking_com/parsers/extract_price_components.py        *)
(* A string is the sequence of its characters.  A parsed value is kept in  *)
(* hundredths (the literal that reaches float() has at most two decimals). *)
(***************************************************************************)
UpperLetters == <<"A", "B", "C", "D", "E", "F", "G", "H", "I", "J", "K", "L", "M",
                  "N", "O", "P", "Q", "R", "S", "T", "U", "V", "W", "X", "Y", "Z">>
LowerLetters == <<"a", "b", "c", "d", "e", "f", "g", "h", "i", "j", "k", "l", "m",
                  "n", "o", "p", "q", "r", "s", "t", "u", "v", "w", "x", "y", "z">>
LetterIndex(c, letters) ==
    IF \E i \in 1..Len(letters) : letters[i] = c
    THEN CHOOSE i \in 1..Len(letters) : letters[i] = c
    ELSE 0
\* str.lower() and str.upper()
StrLower(str) ==
    [i \in 1..Len(str) |->
        IF LetterIndex(str[i], UpperLetters) # 0
        THEN LowerLetters[LetterIndex(str[i], UpperLetters)] ELSE str[i]]
StrUpper(str) ==
    [i \in 1..Len(str) |->
        IF LetterIndex(str[i], LowerLetters) # 0
        THEN UpperLetters[LetterIndex(str[i], LowerLetters)] ELSE str[i]]

\* the narrow no-break space U+202F
Nnbsp == "nnbsp"
Digits == <<"0", "1", "2", "3", "4", "5", "6", "7", "8", "9">>
IsDigit(c) == \E i \in 1..Len(Digits) : Digits[i] = c
DigitValue(c) == (CHOOSE i \in 1..Len(Digits) : Digits[i] = c) - 1

\* sub in str
Contains(str, sub) ==
    \E i \in 0..(Len(str) - Len(sub)) :
        \A j \in 1..Len(sub) : str[i + j] = sub[j]
\* str.startswith(sub, i - 1)
StartsWithAt(str, i, sub) ==
    /\ i + Len(sub) - 1 <= Len(str)
    /\ \A j \in 1..Len(sub) : str[i + j - 1] = sub[j]
\* str.replace(c, "")
Delete(str, c) == SelectSeq(str, LAMBDA x : x # c)
\* str.replace(c, d)
Replace(str, c, d) == [i \in 1..Len(str) |-> IF str[i] = c THEN d ELSE str[i]]
\* str.rfind(c), 1-based; 0 when c does not occur (-1 in the code)
RFind(str, c) ==
    IF \E i \in 1..Len(str) : str[i] = c
    THEN CHOOSE i \in 1..Len(str) :
            str[i] = c /\ \A j \in (i + 1)..Len(str) : str[j] # c
    ELSE 0

\* line 30
NormalizeSpaces(price_string) == Strip(Replace(price_string, Nnbsp, " "))

\* line 33: the tokens of currency_pattern in the order of the alternation,
\* matched with re.IGNORECASE (the codes between USD and Rs are left out)
CurrencyTokens == << <<"$">>, <<"L", "K", "R">>, <<"U", "S", "D">>,
                     <<"R", "S", ".">>, <<"R", "S">> >>
\* the length of the currency token matched at position i, 0 for none
CurrencyAt(str, i) ==
    LET up == StrUpper(str)
        hits == {k \in 1..Len(CurrencyTokens) : StartsWithAt(up, i, CurrencyTokens[k])}
    IN  IF hits = {} THEN 0
        ELSE Len(CurrencyTokens[CHOOSE k \in hits : \A h \in hits : k <= h])

\* \s*: the position after the spaces that start at i
RECURSIVE SkipSpaces(_, _)
SkipSpaces(str, i) ==
    IF i <= Len(str) /\ str[i] = " " THEN SkipSpaces(str, i + 1) ELSE i

\* the number of digits at i, at most most
RECURSIVE DigitsAt(_, _, _)
DigitsAt(str, i, most) ==
    IF most = 0 \/ i > Len(str) \/ ~IsDigit(str[i]) THEN 0
    ELSE 1 + DigitsAt(str, i + 1, most - 1)

\* line 34, (?:[.,\s]?\d{3})* from position p: the position after the groups
RECURSIVE GroupsEnd(_, _)
GroupsEnd(str, p) ==
    IF p <= Len(str) /\ str[p] \in {".", ",", " "} /\ DigitsAt(str, p + 1, 3) = 3
    THEN GroupsEnd(str, p + 4)
    ELSE IF DigitsAt(str, p, 3) = 3 THEN GroupsEnd(str, p + 3)
    ELSE p

\* line 34, (?:[.,]\d{1,2})? from position p
DecimalEnd(str, p) ==
    IF p <= Len(str) /\ str[p] \in {".", ","} /\ DigitsAt(str, p + 1, 2) >= 1
    THEN p + 1 + DigitsAt(str, p + 1, 2)
    ELSE p

\* line 34: number_pattern matched at the digit at position i; the position
\* after the match.  Every part after \d{1,3} is optional, so the greedy
\* choice is never undone.
NumberEnd(str, i) == DecimalEnd(str, GroupsEnd(str, i + DigitsAt(str, i, 3)))

\* lines 36-39: re.search(full_pattern, ...) tried at position i: the
\* currency alternative first, then the empty one
MatchAt(str, i) ==
    LET c == CurrencyAt(str, i)
        qa == SkipSpaces(str, i + c)
        qb == SkipSpaces(str, i)
    IN  IF c > 0 /\ DigitsAt(str, qa, 1) = 1
        THEN [found |-> TRUE, cur_at |-> i, cur_len |-> c, num_at |-> qa]
        ELSE IF DigitsAt(str, qb, 1) = 1
        THEN [found |-> TRUE, cur_at |-> i, cur_len |-> 0, num_at |-> qb]
        ELSE [found |-> FALSE, cur_at |-> i, cur_len |-> 0, num_at |-> i]

\* lines 36-39: the leftmost match, with its groups 1, 2 and 3
SearchFullPattern(str) ==
    LET starts == {i \in 1..Len(str) : MatchAt(str, i).found}
    IN  IF starts = {} THEN [found |-> FALSE, group1 |-> <<>>, group2 |-> <<>>,
                             group3 |-> <<>>]
        ELSE LET m == MatchAt(str, CHOOSE i \in starts : \A j \in starts : i <= j)
                 num_end == NumberEnd(str, m.num_at)
                 t == SkipSpaces(str, num_end)
             IN  [found |-> TRUE,
                  group1 |-> SubSeq(str, m.cur_at, m.cur_at + m.cur_len - 1),
                  group2 |-> SubSeq(str, m.num_at, num_end - 1),
                  group3 |-> SubSeq(str, t, t + CurrencyAt(str, t) - 1)]

LKR == <<"L", "K", "R">>
\* lines 61-67
CurrencySymbol_raw(group1, group3) == IF group1 # <<>> THEN group1 ELSE group3
CurrencySymbol(group1, group3) ==
    LET currency_symbol_found == IF group1 # <<>> THEN group1 ELSE group3
        currency_symbol == StrUpper(currency_symbol_found)
    IN  IF StartsWithAt(currency_symbol, 1, <<"R", "S">>) THEN LKR
        ELSE currency_symbol

\* lines 80-103: the literal handed to float()
ProcessNumber(found_number_str) ==
    LET cleaned_number_str == Delete(found_number_str, " ")
        last_dot_idx == RFind(cleaned_number_str, ".")
        last_comma_idx == RFind(cleaned_number_str, ",")
    IN  IF last_dot_idx = 0 /\ last_comma_idx = 0 THEN cleaned_number_str
        ELSE IF last_dot_idx # 0 /\ last_comma_idx # 0
        THEN IF last_comma_idx > last_dot_idx
             THEN Replace(Delete(cleaned_number_str, "."), ",", ".")
             ELSE Delete(cleaned_number_str, ",")
        ELSE IF last_dot_idx # 0
        THEN IF Len(cleaned_number_str) - last_dot_idx <= 2
             THEN cleaned_number_str
             ELSE Delete(cleaned_number_str, ".")
        ELSE IF Len(cleaned_number_str) - last_comma_idx <= 2
             THEN Replace(cleaned_number_str, ",", ".")
             ELSE Delete(cleaned_number_str, ",")

\* the value of a run of digits
RECURSIVE DigitsValue(_)
DigitsValue(str) ==
    IF str = <<>> THEN 0
    ELSE 10 * DigitsValue(SubSeq(str, 1, Len(str) - 1)) + DigitValue(str[Len(str)])

\* a decimal value mantissa / 10^scale without trailing zero decimals
RECURSIVE Decimal(_, _)
Decimal(mantissa, scale) ==
    IF scale > 0 /\ mantissa % 10 = 0 THEN Decimal(mantissa \div 10, scale - 1)
    ELSE <<mantissa, scale>>

\* lines 108-118: float(processed_number); a literal with more than one
\* "." raises ValueError
ToFloat(processed_number) ==
    LET dots == Len(SelectSeq(processed_number, LAMBDA c : c = "."))
        dot == RFind(processed_number, ".")
    IN  IF dots > 1 \/ Delete(processed_number, ".") = <<>>
        THEN [ok |-> FALSE, value |-> <<0, 0>>]
        ELSE IF dots = 0
        THEN [ok |-> TRUE, value |-> <<DigitsValue(processed_number), 0>>]
        ELSE [ok |-> TRUE,
              value |-> Decimal(DigitsValue(Delete(processed_number, ".")),
                                Len(processed_number) - dot)]

IncludesTaxes == <<"i", "n", "c", "l", "u", "d", "e", "s", " ", "t", "a", "x", "e",
                   "s", " ", "a", "n", "d", " ", "c", "h", "a", "r", "g", "e", "s">>

\* line 42
ImpliedZero_casesensitive(price_string, found) ==
    Contains(price_string, IncludesTaxes) /\ ~found
ImpliedZero(price_string, found) ==
    Contains(StrLower(price_string), IncludesTaxes) /\ ~found

NoValue == [has_value |-> FALSE, value |-> <<0, 0>>, currency |-> <<>>]
Value(v, currency) == [has_value |-> TRUE, value |-> v, currency |-> currency]
\* an argument that is not a str (None, a number)
NotAString == [is_str |-> FALSE, text |-> <<>>]
Str(text) == [is_str |-> TRUE, text |-> text]

\* lines 7-118
ExtractPriceComponents(arg) ==
    LET price_string == NormalizeSpaces(arg.text)
        match == SearchFullPattern(price_string)
        currency_symbol == CurrencySymbol(match.group1, match.group3)
        parsed == ToFloat(ProcessNumber(match.group2))
    IN  IF ~arg.is_str THEN NoValue                                 \* lines 23-27
        ELSE IF ImpliedZero(price_string, match.found)
        THEN Value(<<0, 0>>, <<>>)                                  \* lines 42-46
        ELSE IF ~match.found THEN NoValue                           \* lines 48-54
        ELSE IF parsed.ok THEN Value(parsed.value, currency_symbol) \* line 113
        ELSE Value(<<0, 0>>, currency_symbol)                       \* line 118

\* every string of 1..n characters of a numeric literal
LiteralChars == {"1", "2", ".", ",", " "}
Literals(n) == UNION {[1..k -> LiteralChars] : k \in 1..n}
\* texts around an amount, and texts without any digit
Prefixes == {<<>>, <<"R", "s", " ">>, <<"r", "s", ".">>, <<"$">>, <<"x", " ">>,
             <<Nnbsp>>}
Amounts == {<<"4", "5">>, <<"1", ",", "5">>}
Suffixes == {<<>>, <<" ", "u", "s", "d">>, <<" ", "x">>}
IncludesTaxesText == <<"I", "n", "c", "l", "u", "d", "e", "s", Nnbsp, "t", "a", "x",
                       "e", "s", " ", "a", "n", "d", " ", "c", "h", "a", "r", "g",
                       "e", "s">>
Texts == {<<>>, <<"g", "a", "r", "b", "a", "g", "e">>, <<"R", "s">>, IncludesTaxes,
          IncludesTaxesText, StrUpper(IncludesTaxes), IncludesTaxesText \o <<" ", "5">>,
          <<"L", "K", "R", " ">> \o IncludesTaxes}
PriceArguments ==
    {NotAString}
      \cup {Str(l) : l \in Literals(MaxLiteralLen)}
      \cup {Str(p \o a \o x) : p \in Prefixes, a \in Amounts, x \in Suffixes}
      \cup {Str(t) : t \in Texts}

NotParsed == [has_value |-> FALSE, value |-> <<0, 0>>, currency |-> <<"?">>]

PriceInputs ==
    /\ pr_input \in PriceArguments
    /\ pr_result = NotParsed

PriceIdle ==
    /\ pr_input = NotAString
    /\ pr_result = NotParsed

\* one call of extract_price_components
ParsePrice ==
    /\ pr_result' = ExtractPriceComponents(pr_input)
    /\ UNCHANGED pr_input
    /\ UNCHANGED nonPriceVars

PriceNext == ParsePrice

(***************************************************************************)
(* Distance parsing                                                        *)
(* src/app/scrapers/booking_com/parsers/parse_distance_km.py               *)
(* src/server/app/scrapers/booking_com/parsers/extract_float_value.py      *)
(***************************************************************************)
NoFloat == [has_value |-> FALSE, value |-> <<0, 0>>]
Float(v) == [has_value |-> TRUE, value |-> v]

\* extract_float_value lines 23-71 on a str: the first match of the number
\* pattern starts at the first digit
ExtractFloatValue(value_string) ==
    LET str == NormalizeSpaces(value_string)
        digits == {i \in 1..Len(str) : IsDigit(str[i])}
        num_at == CHOOSE i \in digits : \A j \in digits : i <= j
        parsed == ToFloat(ProcessNumber(SubSeq(str, num_at, NumberEnd(str, num_at) - 1)))
    IN  IF digits = {} THEN NoFloat                   \* lines 25-27
        ELSE IF parsed.ok THEN Float(parsed.value)    \* line 66
        ELSE NoFloat                                  \* line 71

\* str.strip() on a text that may start or end with narrow no-break spaces
RECURSIVE StripWhitespace(_)
StripWhitespace(str) ==
    IF str # <<>> /\ str[1] \in {" ", Nnbsp} THEN StripWhitespace(Tail(str))
    ELSE IF str # <<>> /\ str[Len(str)] \in {" ", Nnbsp}
    THEN StripWhitespace(SubSeq(str, 1, Len(str) - 1))
    ELSE str

Beachfront == <<"b", "e", "a", "c", "h", "f", "r", "o", "n", "t">>
SpaceM == <<" ", "m">>
SpaceMeters == <<" ", "m", "e", "t", "e", "r", "s">>

\* line 32: " m" in text or " meters" in text
MetreMarker(text) == Contains(text, SpaceM) \/ Contains(text, SpaceMeters)

\* line 33: value / 1000
DivideBy1000(v) == Decimal(v[1], v[2] + 3)

\* parse_distance_km lines 20-35, for None or a str
ParseDistanceKm(arg) ==
    LET text == StripWhitespace(StrLower(arg.text))
        value == ExtractFloatValue(text)
    IN  IF ~arg.is_str \/ arg.text = <<>> THEN NoFloat         \* lines 20-21
        ELSE IF Contains(text, Beachfront) THEN Float(<<0, 0>>) \* lines 25-26
        ELSE IF ~value.has_value THEN NoFloat                   \* lines 29-30
        ELSE IF MetreMarker(text) THEN Float(DivideBy1000(value.value))
        ELSE value

\* distance texts: a magnitude, a unit and the words after it
Magnitudes == {<<"5">>, <<"3", "5", "0">>, <<"2", ".", "8">>, <<"1", "5", "0", "0">>,
               <<"1", ",", "5">>}
MetreUnits == {<<" ", "m">>, <<"m">>, <<" ", "M">>, <<" ", "m", "e", "t", "e", "r", "s">>,
               <<Nnbsp, "m">>}
KmUnits == {<<" ", "k", "m">>, <<"k", "m">>, <<" ", "K", "M">>}
Tails == {<<>>, <<" ", "f", "r", "o", "m", " ", "b", "e", "a", "c", "h">>,
          <<" ", "f", "r", "o", "m", " ", "d", "o", "w", "n", "t", "o", "w", "n">>,
          <<" ", "f", "r", "o", "m", " ", "m", "a", "r", "k", "e", "t">>}
OtherDistanceTexts ==
    {<<"B", "e", "a", "c", "h", "f", "r", "o", "n", "t">>,
     <<"5", " ", "k", "m", " ", "t", "o", " ">> \o Beachfront,
     <<"n", "o", " ", "n", "u", "m", "b", "e", "r", " ", "h", "e", "r", "e">>,
     <<>>, <<" ">>}
DistanceArguments ==
    {NotAString}
      \cup {Str(m \o u \o t) : m \in Magnitudes, u \in MetreUnits \cup KmUnits, t \in Tails}
      \cup {Str(t) : t \in OtherDistanceTexts}

NotMeasured == [has_value |-> FALSE, value |-> <<0, 1>>]

DistanceInputs ==
    /\ ds_input \in DistanceArguments
    /\ ds_result = NotMeasured

DistanceIdle ==
    /\ ds_input = NotAString
    /\ ds_result = NotMeasured

\* one call of parse_distance_km
ParseDistance ==
    /\ ds_result' = ParseDistanceKm(ds_input)
    /\ UNCHANGED ds_input
    /\ UNCHANGED nonDistanceVars

DistanceNext == ParseDistance

(***************************************************************************)
(* Orchestration: the runs of scrape_booking_com_data                      *)
(* src/server/app/scrapers/booking_com/orchestrator/scrape_booking_com_data.py *)
(* src/app/scrapers/booking_com/orchestrator.py                            *)
(* src/app/utils/constants.py, src/server/app/utils/constants.py           *)
(* src/app/prediction/model_utils/get_model_metadata_path.py               *)
(* src/server/app/prediction/model_utils/get_model_metadata_path.py        *)
(* The repository holds two source trees of the orchestrator, app and      *)
(* server; a deployment runs one of them (or_tree).  The clock counts      *)
(* days.  A path is the sequence of its components below the working       *)
(* directory.  The app tree takes its save functions from                  *)
(* src/app/utils/file_io.py, which write no file for a DataFrame.  Within  *)
(* a run the csv saves of the server tree go through and every detail page *)
(* is fetched; their failures are the subject of the Parameter Cache part. *)
(***************************************************************************)
Trees == {"app", "server"}
\* should_retrain_model line 13: min_data_increase_ratio = 0.1, in hundredths
DefaultRatioPct == 10
\* should_retrain_model line 14: max_model_age_days = 30
DefaultMaxModelAgeDays == 30
ModelFileName == "Unawatuna_2_1_100_10_basic_price_predictor"
\* target_hotel_name is None
NoTarget == <<>>
\* the hotel of the general listing that the named target is
TargetHotel == "h1"
\* the cards the search result page shows for the target
TargetCards == <<Title(<<"A", " ">>)>>
\* 24 hours a day: the Entity Cache counts hours
HoursOf(days) == days * 24

\* get_model_filepath: f"{ML_MODEL_DIR}/{...}_{model_name}" in the app tree,
\* os.path.join(ML_MODEL_DIR, filename) in the server tree
GetModelFilepath(tree) == MlModelDir \o <<ModelFileName>>

\* get_model_metadata_path: os.path.join(ML_MODEL_DIR, f"{model_filename}.json")
\* in the app tree, os.path.join(f"{model_filename}.json") in the server tree
GetModelMetadataPath(tree, model_filename) ==
    LET p == IF tree = "app" THEN MlModelDir \o model_filename ELSE model_filename
    IN  [dir |-> SubSeq(p, 1, Len(p) - 1), name |-> <<p[Len(p)], ".json">>]

\* save_model_metadata lines 18-25: open(metadata_path, "w") needs the
\* directory of the path, without it the open fails whatever the file
\* system would do with the write
SaveModelMetadataFile(tree, dirs, file, model_filename, metadata, write) ==
    LET dirs1 == Makedirs(dirs, MlModelDir)
        path == GetModelMetadataPath(tree, model_filename)
        outcome == IF path.dir \in dirs1 THEN write ELSE "open_failed"
    IN  [dirs |-> dirs1, outcome |-> outcome,
         file |-> WriteMetadata(file, metadata, outcome)]

\* lines 141 (server tree) and 337 (app tree): the force_refetch argument of
\* the second scrape_general_data call
RefetchArgument(tree, force_refetch) ==
    IF tree = "app" THEN TRUE ELSE force_refetch

\* the arguments of a run
RunArgs ==
    [hotel_details_limit : {1}, force_refetch : BOOLEAN,
     force_fetch_delay : {NoDelay}, target_hotel_name : {NoTarget, <<"A">>}]
\* what the page of the target does during a run
RunSpEnvs == {"ok", "nav_failed"}
\* train_model returns, raises before line 328, or raises after the
\* os.makedirs of line 328 (basic_trainer.py lines 325-372)
TrainOutcomes == {"ok", "raises", "raises_after_makedirs"}

\* no call of scrape_general_data
NoCall == GeneralCall("none", 0, FALSE, NoHotel, <<FALSE, FALSE>>, <<<<>>, <<>>>>)

\* the variables of one run of the coroutine and the await it is suspended
\* at: "launch" (lines 63-78), "sp_page" (the awaits of
\* scrape_specific_property_data), "sp_close" (lines 91-92), "general" (an
\* await of the first or the second scrape_general_data), "browser_close"
\* (line 183), "playwright_exit" (the end of the async with of line 63);
\* "ended" ends it.  raised is the exception raised inside the try block of
\* lines 68-178, close_raised the one raised while the browser is closed;
\* meta_before is the metadata file as train_model left it
Run(args) ==
    [pc |-> "launch", which |-> 0, args |-> args, specific_property |-> NoHotel,
     general |-> NoCall, events |-> <<>>, recommended |-> FALSE, raised |-> "",
     close_raised |-> "", trained |-> FALSE, written |-> FALSE,
     meta_before |-> NoMetadataFile]

\* the files and directories a run reads and writes
World(ec, pf, dfs, url_cached, meta, dirs) ==
    [ec |-> ec, props_file |-> pf, details_files |-> dfs,
     url_cached |-> url_cached, meta |-> meta, dirs |-> dirs]

NoRun ==
    [op |-> "none", force_refetch |-> FALSE, raised |-> "",
     close_raised |-> "", events |-> <<>>,
     recommended |-> FALSE, meta_before |-> NoMetadataFile,
     training_properties_cached |-> FALSE, training_details_cached |-> FALSE,
     properties |-> 0, details |-> 0, written |-> FALSE]

\* what is kept of a run that ended
Ended(r) ==
    [op |-> "run", force_refetch |-> r.args.force_refetch, raised |-> r.raised,
     close_raised |-> r.close_raised,
     events |-> r.events, recommended |-> r.recommended,
     meta_before |-> r.meta_before,
     training_properties_cached |-> r.trained /\ r.general.properties_from_cache,
     training_details_cached |-> r.trained /\ r.general.hotel_details_from_cache,
     properties |-> IF r.trained THEN Len(r.general.scraped_properties) ELSE 0,
     details |-> IF r.trained THEN Len(r.general.hotel_details_data) ELSE 0,
     written |-> r.written]

\* lines 163-170 placed after train_model: the metadata is saved when the
\* call of train_model has returned
SaveReached_ontraining(recommended, train) == recommended
SaveReached(recommended, train) == recommended /\ train = "ok"

\* lines 179-183: the exception is logged and raised again; the run is
\* suspended in the browser.close() of the finally block
Raise(r, w, what) ==
    [run |-> [r EXCEPT !.pc = "browser_close", !.raised = what], world |-> w]
\* lines 172-178, 183: the try block is left without an exception; the run
\* is suspended in the browser.close() of the finally block
Return(r, w) == [run |-> [r EXCEPT !.pc = "browser_close"], world |-> w]
\* the run is suspended in a call of scrape_general_data
Suspend(r, w, which, call) ==
    [run |-> [r EXCEPT !.pc = "general", !.which = which, !.general = call,
                       !.events = Append(@, "scrape_general_data")],
     world |-> w]

\* lines 163-169: the metadata of the trained model
TrainedMetadata(general, t) ==
    [k \in MetaKeys |->
        IF k = "last_trained_at" THEN t
        ELSE IF k = "trained_properties_count"
             THEN Len(general.scraped_properties)
             ELSE Len(general.hotel_details_data)]

\* lines 152-183: train_model holds no await, so train_model and
\* save_model_metadata run without another coroutine in between; then the
\* run is suspended in the browser.close() of line 183
TrainAndSave(tree, r, w, t, train, write) ==
    LET dirs1 == IF train = "raises" THEN w.dirs
                 ELSE Makedirs(w.dirs, GetModelFilepath(tree))
        save_called == SaveReached(r.recommended, train)
        save == SaveModelMetadataFile(tree, dirs1, w.meta, GetModelFilepath(tree),
                                      TrainedMetadata(r.general, t), write)
    IN  [run |->
            [r EXCEPT
                !.pc = "browser_close",
                !.raised = IF train = "ok" THEN "" ELSE "train_model",
                !.trained = TRUE,
                !.meta_before = w.meta,
                !.written = save_called /\ save.outcome = "ok",
                !.events =
                    @ \o <<"train_model">>
                      \o (IF train = "ok" THEN <<"train_model returned">> ELSE <<>>)
                      \o (IF save_called THEN <<"save_model_metadata">> ELSE <<>>)
                      \o (IF save_called /\ save.outcome = "ok"
                          THEN <<"metadata written">>
                          ELSE IF save_called /\ save.outcome = "write_failed"
                          THEN <<"metadata emptied">> ELSE <<>>)],
         world |->
            [w EXCEPT !.dirs = IF save_called THEN save.dirs ELSE dirs1,
                      !.meta = IF save_called THEN save.file ELSE @]]

\* lines 127-144: the second scrape_general_data; served from the
\* Parameter Cache it returns without an await
StartSecond(tree, r, w, t, call, train, write) ==
    IF call.pc = "returned"
    THEN TrainAndSave(tree,
                      [r EXCEPT !.general = call,
                                !.events = Append(@, "scrape_general_data")],
                      w, t, train, write)
    ELSE Suspend(r, w, 2, call)

\* lines 125-150: the datasets handed to train_model are those of the second
\* scrape_general_data when it was called, those of the first otherwise
AfterDecision(tree, r, w, t, train, write) ==
    IF ~r.recommended THEN Return(r, w)
    ELSE IF ~r.args.force_refetch
    THEN StartSecond(tree, r, w, t,
                     GeneralGate(w.props_file, w.details_files, t,
                                 r.args.hotel_details_limit,
                                 RefetchArgument(tree, r.args.force_refetch),
                                 r.args.force_fetch_delay, r.specific_property),
                     train, write)
    ELSE TrainAndSave(tree, r, w, t, train, write)

\* lines 111-124: should_retrain_model on the datasets of the first scrape
AfterFirst(tree, r, w, t, train, write) ==
    AfterDecision(tree,
                  [r EXCEPT !.events = Append(@, "should_retrain_model"),
                            !.recommended =
                                ShouldRetrainModel(
                                    w.meta, t, Len(r.general.scraped_properties),
                                    Len(r.general.hotel_details_data),
                                    DefaultRatioPct, DefaultMaxModelAgeDays)],
                  w, t, train, write)

\* lines 95-108: the first scrape_general_data
StartFirst(tree, r, w, t, call, train, write) ==
    IF call.pc = "returned"
    THEN AfterFirst(tree,
                    [r EXCEPT !.general = call,
                              !.events = Append(@, "scrape_general_data")],
                    w, t, train, write)
    ELSE Suspend(r, w, 1, call)

\* the cache gates of the first scrape_general_data
GateFirst(r, w, t) ==
    GeneralGate(w.props_file, w.details_files, t, r.args.hotel_details_limit,
                r.args.force_refetch, r.args.force_fetch_delay,
                r.specific_property)

\* lines 63-86 after the browser is launched.  Server tree: the lookup of
\* scrape_specific_property_data.  App tree: line 280 passes four arguments
\* to a function of five (specific_property_extractor.py lines 18-24), the
\* TypeError takes the run to the page.close() of line 287
Launched(tree, r, w, t, lookup, train, write) ==
    IF r.args.target_hotel_name = NoTarget
    THEN StartFirst(tree, r, w, t, GateFirst(r, w, t), train, write)
    ELSE IF tree = "app"
    THEN [run |-> [r EXCEPT !.pc = "sp_close",
                            !.events = <<"scrape_specific_property_data">>,
                            !.raised = "scrape_specific_property_data"],
          world |-> w]
    ELSE [run |-> [r EXCEPT !.pc = IF lookup.hit THEN "sp_close" ELSE "sp_page",
                            !.events = <<"scrape_specific_property_data">>,
                            !.specific_property =
                                IF lookup.hit THEN TargetHotel ELSE NoHotel],
          world |-> [w EXCEPT !.ec = lookup.files]]

\* lines 84-91: scrape_specific_property_data returns or raises; either way
\* the run is suspended in the page.close() of line 91
SpecificDone(r, w, page) ==
    IF page.outcome.kind = "raised"
    THEN [run |-> [r EXCEPT !.pc = "sp_close",
                            !.raised = "scrape_specific_property_data"],
          world |-> [w EXCEPT !.ec = page.files]]
    ELSE [run |-> [r EXCEPT !.pc = "sp_close",
                            !.specific_property =
                                IF page.outcome.listing THEN TargetHotel
                                ELSE NoHotel],
          world |-> [w EXCEPT !.ec = page.files]]

\* lines 91-98 and 179-183: the page and the context of the target are
\* closed; an exception of scrape_specific_property_data goes on to the
\* except block, otherwise the first scrape_general_data starts
SpecificClosed(tree, r, w, t, train, write) ==
    IF r.raised # "" THEN Raise(r, w, r.raised)
    ELSE StartFirst(tree, r, w, t, GateFirst(r, w, t), train, write)

\* line 183: browser.close() returns or raises; the run is suspended in the
\* exit of async_playwright (line 63)
BrowserClosed(r, w, close_ok) ==
    [run |-> [r EXCEPT !.pc = "playwright_exit",
                       !.close_raised = IF close_ok THEN "" ELSE "browser.close"],
     world |-> w]

\* lines 63 and 185-188: the exit of async_playwright returns or raises; the
\* run returns when nothing was raised
PlaywrightExited(r, w, exit_ok) ==
    [run |-> [r EXCEPT !.pc = "ended",
                       !.close_raised = IF exit_ok THEN @ ELSE "async_playwright"],
     world |-> w]

\* the call of scrape_general_data the run is suspended in, with the files
\* as it finds them when it resumes
GeneralOf(r, w) ==
    GeneralState(r.general, w.props_file, w.details_files, w.url_cached)

\* the files after the call went on to s
WorldAfter(w, s) ==
    [w EXCEPT !.props_file = s.props_file, !.details_files = s.details_files,
              !.url_cached = s.url_cached]

\* the call of scrape_general_data went on to s, its next await or a raise
GeneralWentOn(r, w, s) ==
    IF s.call.pc = "raised"
    THEN Raise([r EXCEPT !.general = s.call], WorldAfter(w, s),
               "scrape_general_data")
    ELSE [run |-> [r EXCEPT !.general = s.call], world |-> WorldAfter(w, s)]

\* the call of scrape_general_data has closed its page: it raises or
\* returns, and the run goes on without an await
GeneralReturned(tree, r, w, t, s, train, write) ==
    IF s.call.pc = "raised" THEN GeneralWentOn(r, w, s)
    ELSE IF r.which = 1
    THEN AfterFirst(tree, [r EXCEPT !.general = s.call], w, t, train, write)
    ELSE TrainAndSave(tree, [r EXCEPT !.general = s.call], w, t, train, write)

\* the metadata files a deployment can start with: none in a fresh working
\* directory; in the server tree also what an earlier run left
OrchestrateInputs ==
    /\ now = 0
    /\ ec_files = [k \in CacheKeys |-> AbsentFile]
    /\ pc_props_file = NoCsv
    /\ pc_details_files = [l \in DetailLimits |-> NoCsv]
    /\ pc_url_cached = FALSE
    /\ pc_calls = EmptyBag
    /\ rt_decision = NoDecision
    /\ or_tree \in Trees
    /\ \/ ml_dirs = {} /\ rt_file = NoMetadataFile
       \/ /\ or_tree = "server"
          /\ ml_dirs = {MlModelDir}
          /\ rt_file \in {UndecodableFile}
                \cup {JsonFile([k \in MetaKeys |->
                                  IF k = "last_trained_at" THEN 0 ELSE c]) :
                        c \in {0, 1}}
    /\ or_run = NoRun
    /\ or_runs = EmptyBag

OrchestrateIdle ==
    /\ or_tree = "server"
    /\ or_run = NoRun
    /\ or_runs = EmptyBag

\* the files and directories as a run finds them when it resumes
Found ==
    World(ec_files, pc_props_file, pc_details_files, pc_url_cached, rt_file,
          ml_dirs)

\* the run r of the bag went on to o.run and left the files o.world
RunStepTo(r, o) ==
    /\ ec_files' = o.world.ec
    /\ pc_props_file' = o.world.props_file
    /\ pc_details_files' = o.world.details_files
    /\ pc_url_cached' = o.world.url_cached
    /\ rt_file' = o.world.meta
    /\ ml_dirs' = o.world.dirs
    /\ or_runs' = IF o.run.pc = "ended" THEN or_runs (-) SetToBag({r})
                  ELSE (or_runs (-) SetToBag({r})) (+) SetToBag({o.run})
    /\ or_run' = IF o.run.pc = "ended" THEN Ended(o.run) ELSE or_run
    /\ UNCHANGED <<now, or_tree, pc_calls, rt_decision>>
    /\ UNCHANGED nonOrchestrateVars

\* the runs that overlap on one event loop: overlapping runs are tried
\* where they start together, with the same arguments, in a working
\* directory that holds no file yet
RunsTogether(args) ==
    /\ BagCardinality(or_runs) < MaxCallers
    /\ \A r \in BagToSet(or_runs) : r = Run(args)
    /\ ec_files = [k \in CacheKeys |-> AbsentFile]
    /\ pc_props_file = NoCsv
    /\ \A l \in DetailLimits : pc_details_files[l] = NoCsv
    /\ ~pc_url_cached
    /\ rt_file = NoMetadataFile

\* scrape_booking_com_data lines 47-64 (server tree), 244-260 (app tree): a
\* run starts and is suspended while the browser is launched
RunBegin(args) ==
    /\ or_runs # EmptyBag => RunsTogether(args)
    /\ or_runs' = or_runs (+) SetToBag({Run(args)})
    /\ or_run' = NoRun
    /\ rt_decision' = NoDecision
    /\ UNCHANGED <<now, ec_files, paramVars, rt_file, ml_dirs, or_tree>>
    /\ UNCHANGED nonOrchestrateVars

\* lines 63-98
RunLaunched(r, train, write) ==
    /\ r.pc = "launch"
    /\ RunStepTo(r, Launched(or_tree, r, Found, now,
                             SpecificLookup(ec_files, HoursOf(now),
                                            r.args.target_hotel_name, TRUE),
                             train, write))

\* lines 84-91
RunSpecificDone(r, env) ==
    /\ r.pc = "sp_page"
    /\ RunStepTo(r, SpecificDone(r, Found,
                                 SpecificPage(ec_files, HoursOf(now),
                                              r.args.target_hotel_name,
                                              TargetCards, env)))

\* lines 91-98
RunSpecificClosed(r, train, write) ==
    /\ r.pc = "sp_close"
    /\ RunStepTo(r, SpecificClosed(or_tree, r, Found, now, train, write))

\* the save functions of the tree.  In the app tree orchestrator.py lines
\* 34-38 import them from app/utils/file_io.py, whose lines 32 and 104 test
\* `if not data:` on the DataFrame they are handed: the ValueError is raised
\* again at lines 80 and 169 and dropped by the orchestrator (lines 175-176,
\* 230-231) before a file is touched
SaveOutcome(tree, outcome) == IF tree = "app" THEN "failed" ELSE outcome

\* scrape_general_data lines 91-142 within a run
RunGeneralOpened(r, context_ok, nav, save_details) ==
    /\ r.pc = "general" /\ r.general.pc = "open"
    /\ RunStepTo(r, GeneralWentOn(r, Found,
                                  OpenStep(GeneralOf(r, Found), now, context_ok,
                                           nav,
                                           SaveOutcome(or_tree, save_details))))

\* scrape_general_data lines 144-168 within a run
RunGeneralListed(r, listing_raises, listing, save_props, save_details) ==
    /\ r.pc = "general" /\ r.general.pc = "listing"
    /\ RunStepTo(r, GeneralWentOn(r, Found,
                                  ListingStep(GeneralOf(r, Found), now,
                                              listing_raises, listing,
                                              SaveOutcome(or_tree, save_props),
                                              SaveOutcome(or_tree, save_details))))

\* scrape_general_data lines 188-223 within a run
RunGeneralDetailed(r, failed_urls, save_details) ==
    /\ r.pc = "general" /\ r.general.pc = "details"
    /\ RunStepTo(r, GeneralWentOn(r, Found,
                                  DetailsStep(GeneralOf(r, Found), now,
                                              failed_urls,
                                              SaveOutcome(or_tree, save_details))))

\* scrape_general_data lines 225-232, then lines 109-183 of the run as far
\* as its next await
RunGeneralClosed(r, close_ok, train, write) ==
    /\ r.pc = "general" /\ r.general.pc = "close"
    /\ RunStepTo(r, GeneralReturned(or_tree, r, Found, now,
                                    CloseStep(GeneralOf(r, Found), close_ok),
                                    train, write))

\* line 183
RunBrowserClosed(r, close_ok) ==
    /\ r.pc = "browser_close"
    /\ RunStepTo(r, BrowserClosed(r, Found, close_ok))

\* the end of the async with of line 63, lines 185-188
RunPlaywrightExited(r, exit_ok) ==
    /\ r.pc = "playwright_exit"
    /\ RunStepTo(r, PlaywrightExited(r, Found, exit_ok))

\* the call of should_retrain_model of lines 120-124 made again after a run,
\* for the same model file and the datasets the run ended with
FollowingShouldRetrain ==
    /\ or_run.op = "run"
    /\ or_runs = EmptyBag
    /\ ShouldRetrain(or_run.properties, or_run.details, DefaultRatioPct,
                     DefaultMaxModelAgeDays)

\* the clock moves on between and during runs
\* src/main.py lines 304-334 (app tree), after the data was obtained:
\* train_price_prediction_model_without_high_level_data (price_model.py
\* lines 13-262) or train_advanced_price_prediction_model (lines 352-599)
\* raises before its os.makedirs or makes the directory of the model
TrainPricePredictionModel(model_name, raises_before) ==
    /\ or_tree = "app"
    /\ or_runs = EmptyBag
    /\ ml_dirs' = IF raises_before THEN ml_dirs
                  ELSE Makedirs(ml_dirs, PriceModelBasePath(model_name))
    /\ UNCHANGED <<now, ec_files, paramVars, rt_file, rt_decision,
                   orchestrateVars>>
    /\ UNCHANGED nonOrchestrateVars

OrchestrateTick ==
    /\ now < MaxRunDays
    /\ now' = now + 1
    /\ UNCHANGED <<ec_files, paramVars, retrainVars, orchestrateVars>>
    /\ UNCHANGED nonOrchestrateVars

\* what train_model and the file system do at the end of a run; the
\* metadata file is opened only when train_model has returned
TrainEnvs ==
    {e \in [train : TrainOutcomes, write : MetadataWrites] :
        e.train # "ok" => e.write = "ok"}

OrchestrateNext ==
    \/ \E args \in RunArgs : RunBegin(args)
    \/ \E r \in BagToSet(or_runs), e \in TrainEnvs :
         RunLaunched(r, e.train, e.write)
    \/ \E r \in BagToSet(or_runs), env \in RunSpEnvs : RunSpecificDone(r, env)
    \/ \E r \in BagToSet(or_runs), e \in TrainEnvs :
         RunSpecificClosed(r, e.train, e.write)
    \/ \E r \in BagToSet(or_runs), context_ok \in BOOLEAN,
          nav \in {"ok", "failed"} :
         RunGeneralOpened(r, context_ok, nav, "ok")
    \/ \E r \in BagToSet(or_runs), raises \in BOOLEAN, listing \in Listings :
         RunGeneralListed(r, raises, listing, "ok", "ok")
    \/ \E r \in BagToSet(or_runs) : RunGeneralDetailed(r, {}, "ok")
    \/ \E r \in BagToSet(or_runs), e \in TrainEnvs :
         RunGeneralClosed(r, TRUE, e.train, e.write)
    \/ \E r \in BagToSet(or_runs), close_ok \in BOOLEAN :
         RunBrowserClosed(r, close_ok)
    \/ \E r \in BagToSet(or_runs), exit_ok \in BOOLEAN :
         RunPlaywrightExited(r, exit_ok)
    \/ FollowingShouldRetrain
    \/ \E model_name \in PriceModelNames, raises_before \in BOOLEAN :
         TrainPricePredictionModel(model_name, raises_before)
    \/ OrchestrateTick

(***************************************************************************)
(* Search-URL cache                                                        *)
(* src/app/utils/cache.py (get_cached_url, cache_url)                      *)
(* urls.csv is the sequence of its data rows, in file order.               *)
(***************************************************************************)
Destinations == {"Unawatuna", "Mirissa"}
UcAdults == {1, 2}
UcRooms == {1}
SearchUrls == {"u1", "u2"}
UrlKeys == [destination : Destinations, adults : UcAdults, rooms : UcRooms]

NoUrlsCsv == [exists |-> FALSE, rows |-> <<>>]
UrlRow(destination, adults, rooms, url) ==
    [destination |-> destination, adults |-> adults, rooms |-> rooms, url |-> url]

\* lines 39-43: the rows of the key, in file order
RowsOf(file, destination, adults, rooms) ==
    SelectSeq(file.rows,
              LAMBDA r : /\ r.destination = destination
                         /\ r.adults = adults
                         /\ r.rooms = rooms)

\* line 45: row.iloc[0] is the first of the matching rows
PickRow_last(row) == row[Len(row)]
PickRow(row) == row[1]

\* get_cached_url lines 33-49
GetCachedUrl(file, destination, adults, rooms) ==
    IF ~file.exists THEN None
    ELSE LET row == RowsOf(file, destination, adults, rooms)
         IN  IF row # <<>> THEN PickRow(row).url ELSE None

\* cache_url lines 79-98: the new row is appended to the rows of the file
CacheUrl(file, destination, adults, rooms, url) ==
    [exists |-> TRUE,
     rows |-> IF file.exists
              THEN Append(file.rows, UrlRow(destination, adults, rooms, url))
              ELSE <<UrlRow(destination, adults, rooms, url)>>]

NoUrlCall == [op |-> "none", key |-> UrlRow("", 0, 0, ""), ret |-> None,
              before |-> NoUrlsCsv]

UrlCacheInputs ==
    /\ uc_file = NoUrlsCsv
    /\ uc_result = NoUrlCall

UrlCacheIdle ==
    /\ uc_file = NoUrlsCsv
    /\ uc_result = NoUrlCall

\* one call of cache_url
CacheUrlCall(destination, adults, rooms, url) ==
    /\ Len(uc_file.rows) < MaxRows
    /\ uc_file' = CacheUrl(uc_file, destination, adults, rooms, url)
    /\ uc_result' = [op |-> "cache_url",
                     key |-> UrlRow(destination, adults, rooms, url),
                     ret |-> None, before |-> uc_file]
    /\ UNCHANGED nonUrlCacheVars

\* one call of get_cached_url
GetCachedUrlCall(destination, adults, rooms) ==
    /\ uc_result' = [op |-> "get_cached_url",
                     key |-> UrlRow(destination, adults, rooms, ""),
                     ret |-> GetCachedUrl(uc_file, destination, adults, rooms),
                     before |-> uc_file]
    /\ UNCHANGED uc_file
    /\ UNCHANGED nonUrlCacheVars

UrlCacheNext ==
    \/ \E k \in UrlKeys, u \in SearchUrls :
          CacheUrlCall(k.destination, k.adults, k.rooms, u)
    \/ \E k \in UrlKeys : GetCachedUrlCall(k.destination, k.adults, k.rooms)

(***************************************************************************)
(* Specifications: one per component, the others idle                      *)
(***************************************************************************)
FetchInit == FetchInputs /\ now = 0 /\ EntityIdle /\ ParamIdle /\ RetrainIdle /\ ResolveIdle /\ PriceIdle /\ DistanceIdle /\ OrchestrateIdle /\ UrlCacheIdle

SpecFetch == FetchInit /\ [][FetchNext]_vars

\* the event loop runs every coroutine that is ready, and every awaited call
\* (new_context, new_page, scrape_hotel_data, close) returns or raises: some
\* enabled step is eventually taken
SpecFetchLive == FetchInit /\ [][FetchNext]_vars /\ WF_vars(FetchNext)

EntityInit == FetchIdle /\ EntityInputs /\ ParamIdle /\ RetrainIdle /\ ResolveIdle /\ PriceIdle /\ DistanceIdle /\ OrchestrateIdle /\ UrlCacheIdle

SpecEntityCache == EntityInit /\ [][EntityNext]_vars

ParamInit == FetchIdle /\ EntityIdle /\ ParamInputs /\ RetrainIdle /\ ResolveIdle /\ PriceIdle /\ DistanceIdle /\ OrchestrateIdle /\ UrlCacheIdle

SpecParamCache == ParamInit /\ [][ParamNext]_vars

RetrainInit == FetchIdle /\ EntityIdle /\ ParamIdle /\ RetrainInputs /\ ResolveIdle /\ PriceIdle /\ DistanceIdle /\ OrchestrateIdle /\ UrlCacheIdle

SpecRetrain == RetrainInit /\ [][RetrainNext]_vars

ResolveInit == FetchIdle /\ ParamIdle /\ RetrainIdle /\ ResolveInputs /\ PriceIdle /\ DistanceIdle /\ OrchestrateIdle /\ UrlCacheIdle

SpecResolve == ResolveInit /\ [][ResolveNext]_vars

ResolveCacheInit ==
    FetchIdle /\ ParamIdle /\ RetrainIdle /\ ResolveCacheInputs /\ PriceIdle
        /\ DistanceIdle /\ OrchestrateIdle /\ UrlCacheIdle

SpecResolveCache == ResolveCacheInit /\ [][ResolveCacheNext]_vars

PriceInit ==
    FetchIdle /\ now = 0 /\ EntityIdle /\ ParamIdle /\ RetrainIdle /\ ResolveIdle
        /\ PriceInputs /\ DistanceIdle /\ OrchestrateIdle /\ UrlCacheIdle

SpecPrice == PriceInit /\ [][PriceNext]_vars

DistanceInit ==
    FetchIdle /\ now = 0 /\ EntityIdle /\ ParamIdle /\ RetrainIdle /\ ResolveIdle
        /\ PriceIdle /\ DistanceInputs /\ OrchestrateIdle /\ UrlCacheIdle

SpecDistance == DistanceInit /\ [][DistanceNext]_vars

OrchestrateInit ==
    FetchIdle /\ OrchestrateInputs /\ ResolveIdle /\ PriceIdle /\ DistanceIdle
        /\ UrlCacheIdle

SpecOrchestrate == OrchestrateInit /\ [][OrchestrateNext]_vars

UrlCacheInit ==
    FetchIdle /\ now = 0 /\ EntityIdle /\ ParamIdle /\ RetrainIdle /\ ResolveIdle
        /\ PriceIdle /\ DistanceIdle /\ OrchestrateIdle /\ UrlCacheInputs

SpecUrlCache == UrlCacheInit /\ [][UrlCacheNext]_vars

(***************************************************************************)
(* Claims                                                                  *)
(***************************************************************************)

\* a task succeeded when it ran to its end and none of its steps raised
TaskSucceeded == {i \in Tasks : tpc[i] = "ended" /\ raised_at[i] = "none"}
\* a task failed when one of its steps raised
TaskFailed == {i \in Tasks : raised_at[i] # "none"}
\* the payloads of the tasks in kept, each as often as a task of kept has it
PayloadsOf(kept) ==
    [p \in {Payload(urls[i]) : i \in kept} |->
        Cardinality({i \in kept : Payload(urls[i]) = p})]
\* the members of a list, each as often as the list holds it
Returned(list) ==
    [p \in {list[k] : k \in 1..Len(list)} |->
        Cardinality({k \in 1..Len(list) : list[k] = p})]

\* C1: the number of tasks inside the semaphore-guarded section never
\* exceeds max_concurrent
C1_BoundedInFlight == Cardinality(InSection) <= max_concurrent

\* the section is full with fetches running while another task waits for it
C1_Witness ==
    /\ max_concurrent = 2
    /\ Len(urls) = 3
    /\ Cardinality({i \in Tasks : tpc[i] \in {"fetch", "page_close"}}) = 2
    /\ \E i \in Tasks : tpc[i] = "acquire"

\* C2: the call returns only after every task has run to its end, whatever
\* its siblings did (none is cancelled); the returned list holds the payloads
\* of the tasks that did not fail and nothing else, one for each of them, so
\* N minus the number of failed tasks; for an empty url list it is empty
C2_IsolatesFailures ==
    main_pc = "done" =>
        /\ \A i \in Tasks : tpc[i] = "ended"
        /\ TaskSucceeded = Tasks \ TaskFailed
        /\ Returned(successful_results) = PayloadsOf(TaskSucceeded)
        /\ Len(successful_results) = Len(urls) - Cardinality(TaskFailed)
        /\ urls = <<>> => successful_results = <<>>

\* a batch of three has returned: the fetch of one task raised, and the
\* payloads of its two siblings are in the list
C2_Witness ==
    /\ main_pc = "done"
    /\ Len(urls) = 3
    /\ \E i \in Tasks :
          /\ fetch_outcome[i] = "raised"
          /\ TaskFailed = {i}
          /\ \A j \in Tasks \ {i} :
                \E k \in 1..Len(successful_results) :
                   successful_results[k] = Payload(urls[j])
    /\ Len(successful_results) = 2

\* C3: a task that has ended holds no open context and no open page
C3_ReleasedOnEveryExit ==
    \A i \in Tasks : tpc[i] = "ended" => ~ctx_open[i] /\ ~page_open[i]

\* "differs only in letter case or leading/trailing whitespace"
FoldCase(c) ==
    IF c \in {"A", "a"} THEN "a" ELSE IF c \in {"B", "b"} THEN "b" ELSE c
Trimmed(n) ==
    LET inked == {i \in 1..Len(n) : n[i] # " "}
        first == CHOOSE i \in inked : \A j \in inked : i <= j
        last == CHOOSE i \in inked : \A j \in inked : j <= i
    IN  IF inked = {} THEN <<>> ELSE SubSeq(n, first, last)
SameHotel(n1, n2) ==
    /\ Len(Trimmed(n1)) = Len(Trimmed(n2))
    /\ \A i \in 1..Len(Trimmed(n1)) :
         FoldCase(Trimmed(n1)[i]) = FoldCase(Trimmed(n2)[i])

\* C4: after a successful cache_hotel_data(name, adults, rooms, payload), an
\* immediate lookup under any spelling of the same name with the same adults
\* and rooms returns that payload; a lookup with other adults or rooms is
\* not affected by the store (None unless that key was stored before)
C4_RoundTrip ==
    \A n \in Names, ar \in Parties, p \in Payloads :
      LET stored == CacheHotelDataFiles(ec_files, now, n, ar[1], ar[2], p, "ok")
      IN  \A n2 \in Names, ar2 \in Parties, m \in MaxAges :
            LET before == GetCachedHotelData(ec_files, now, n2, ar2[1], ar2[2], m).ret
                after == GetCachedHotelData(stored, now, n2, ar2[1], ar2[2], m).ret
            IN  /\ (SameHotel(n, n2) /\ ar2 = ar) => after = p
                /\ ar2 # ar => after = before
                /\ (ar2 # ar /\ StoredKeys = {}) => after = None

\* two parties of one hotel are cached with different payloads, one of them
\* stored at this very instant
C4_Witness ==
    \E k1, k2 \in StoredKeys :
        /\ k1[1] = k2[1] /\ k1 # k2
        /\ ec_files[k1].status = "ok" /\ ec_files[k2].status = "ok"
        /\ ec_files[k1].payload # ec_files[k2].payload
        /\ ec_files[k1].cached_at = now /\ now > 0

\* C5: a lookup returns the payload iff the entry exists (readable) and
\* now - cached_at <= max_age; for an older entry it returns None and
\* deletes it, so that a following sweep counts one entry less
C5_Expiry ==
    \A n \in Names, ar \in Parties, m \in MaxAges :
      LET k == GenerateCacheKey(n, ar[1], ar[2])
          f == ec_files[k]
          g == GetCachedHotelData(ec_files, now, n, ar[1], ar[2], m)
          live == f.status = "ok" /\ now - f.cached_at <= m
          stale == f.status = "ok" /\ now - f.cached_at > m
      IN  /\ g.ret # None <=> live
          /\ live => g.ret = f.payload /\ g.files = ec_files
          /\ stale =>
               /\ g.ret = None
               /\ g.files[k] = AbsentFile
               /\ \A k2 \in CacheKeys \ {k} : g.files[k2] = ec_files[k2]
               /\ ClearExpiredCache(g.files, now, m).removed_count
                    = ClearExpiredCache(ec_files, now, m).removed_count - 1

\* one entry exactly max_age old (still served) beside one that is older
C5_Witness ==
    \E k1, k2 \in StoredKeys :
        /\ ec_files[k1].status = "ok" /\ now - ec_files[k1].cached_at = MaxAgeHours
        /\ ec_files[k2].status = "ok" /\ now - ec_files[k2].cached_at > MaxAgeHours

\* C6: a sweep removes exactly the readable entries older than max_age,
\* returns their number, and leaves fresh and corrupt entries as they are
C6_Sweep ==
    \A m \in MaxAges :
      LET c == ClearExpiredCache(ec_files, now, m)
          old == {k \in CacheKeys : /\ ec_files[k].status = "ok"
                                    /\ now - ec_files[k].cached_at > m}
      IN  /\ c.removed_count = Cardinality(old)
          /\ \A k \in CacheKeys :
               c.files[k] = IF k \in old THEN AbsentFile ELSE ec_files[k]

\* a corrupt entry, an entry older than every max_age and a fresh one
C6_Witness ==
    \E k1, k2, k3 \in StoredKeys :
        /\ ec_files[k1].status = "corrupt"
        /\ ec_files[k2].status = "ok" /\ now - ec_files[k2].cached_at > MaxAgeHours
        /\ ec_files[k3].status = "ok" /\ ec_files[k3].cached_at = now

\* the ttl the caller asked for: the supplied delay, 7 days when none is
ClaimedTtl(force_fetch_delay) ==
    IF force_fetch_delay = NoDelay THEN DefaultDelayDays ELSE force_fetch_delay

\* C7: a dataset is served from the cache only if force_refetch is false and
\* its age is below the ttl, the ttl being the supplied delay d >= 0
C7_TtlGate ==
    \A l \in DetailLimits, force \in BOOLEAN, d \in Delays,
       x \in {NoHotel, "h1"}, env \in Envs :
      LET r == ScrapeGeneralData(pc_props_file, pc_details_files, pc_url_cached,
                                 now, l, force, d, x, env)
      IN  /\ r.properties_from_cache =>
                ~force /\ now - pc_props_file.mtime < ClaimedTtl(d)
          /\ r.hotel_details_from_cache =>
                ~force /\ now - pc_details_files[l].mtime < ClaimedTtl(d)

\* C8: when a cached dataset file is missing or cannot be read, the run
\* treats the dataset as not cached and takes the fresh-fetch path for it;
\* the run raises only when the browser or the site fails on that path.
\* Stated for the call that starts in the current state and runs alone.
SiteFails(env) ==
    \/ ~env.context_ok
    \/ env.nav = "failed"
    \/ env.listing_raises
    \/ ~env.close_ok
C8_ReadFailureIsMiss ==
    pc_calls = EmptyBag =>
    \A l \in DetailLimits, force \in BOOLEAN, d \in Delays,
       x \in {NoHotel, "h1"}, env \in Envs :
      LET r == ScrapeGeneralData(pc_props_file, pc_details_files, pc_url_cached,
                                 now, l, force, d, x, env)
      IN  /\ pc_props_file.status # "csv" =>
                /\ ~r.properties_from_cache
                /\ r.scrape_props
                /\ r.raised => SiteFails(env)
          /\ pc_details_files[l].status # "csv" =>
                /\ ~r.hotel_details_from_cache
                /\ r.fresh
                /\ r.raised => SiteFails(env)
                /\ ~r.raised => r.scrape_details

\* an unreadable properties file young enough to be tried, beside a readable
\* detail file
C8_Witness ==
    /\ pc_props_file.status = "garbage"
    /\ now - pc_props_file.mtime < MaxDelayDays
    /\ pc_details_files[1].status = "csv"

\* C9: an empty detail dataset stored for a key is a cache hit within the
\* ttl: the run serves the empty dataset and does not fetch details again
C9_EmptyDatasetIsHit ==
    \A l \in DetailLimits, d \in Delays, x \in {NoHotel, "h1"}, env \in Envs :
      LET f == pc_details_files[l]
          r == ScrapeGeneralData(pc_props_file, pc_details_files, pc_url_cached,
                                 now, l, FALSE, d, x, env)
      IN  (f.status = "blank" /\ now - f.mtime < ClaimedTtl(d)) =>
              /\ r.hotel_details_from_cache
              /\ ~r.scrape_details
              /\ ~r.concurrent_called

\* C10: should_retrain_model returns true for every pair of current counts
\* (and every threshold and age limit) whenever load_model_metadata gives an
\* empty dict (no metadata file, or a file holding {}) or the dict has no
\* last_trained_at key.
C10_NoMetadataRetrains ==
    (/\ rt_decision.op = "decide"
     /\ \/ rt_file.status = "absent"
        \/ rt_file.status = "json" /\ rt_file.dict = EmptyDict
        \/ rt_file.status = "json" /\ "last_trained_at" \notin DOMAIN rt_file.dict)
    => rt_decision.result = TRUE

\* a decision on metadata that holds counts but no last_trained_at, with
\* current counts that the count rules alone would not retrain for
C10_Witness ==
    /\ rt_decision.op = "decide"
    /\ rt_file.status = "json"
    /\ DOMAIN rt_file.dict = MetaKeys \ {"last_trained_at"}
    /\ rt_file.dict["trained_properties_count"] = 1
    /\ rt_decision.properties + rt_decision.details = 1
    /\ rt_decision.result = TRUE

\* what the metadata the decision was taken on says
DecidedOnStamped ==
    /\ rt_decision.op = "decide"
    /\ rt_file.status = "json"
    /\ "last_trained_at" \in DOMAIN rt_file.dict
    /\ rt_file.dict["last_trained_at"] # NullStamp
ModelAge == now - rt_file.dict["last_trained_at"]
TrainedTotal ==
    (IF "trained_properties_count" \in DOMAIN rt_file.dict
     THEN rt_file.dict["trained_properties_count"] ELSE 0)
    + (IF "trained_hotel_details_count" \in DOMAIN rt_file.dict
       THEN rt_file.dict["trained_hotel_details_count"] ELSE 0)
CurrentTotal == rt_decision.properties + rt_decision.details
\* the decision of the count rules as the specification words them
CountDecision ==
    IF TrainedTotal = 0 THEN CurrentTotal > 0
    ELSE (CurrentTotal - TrainedTotal) * 100 > rt_decision.ratio_pct * TrainedTotal

\* C11: staleness dominates: when now - last_trained_at is strictly greater
\* than max_model_age_days the decision is true whatever the trained and
\* current counts are; at an age of exactly max_model_age_days the model is
\* not stale and the decision is the one of the count rules.
C11_StalenessDominates ==
    DecidedOnStamped =>
        /\ ModelAge > rt_decision.max_age => rt_decision.result = TRUE
        /\ ModelAge = rt_decision.max_age => rt_decision.result = CountDecision

\* a stale model whose data shrank is retrained
C11_Witness ==
    /\ DecidedOnStamped
    /\ ModelAge > rt_decision.max_age
    /\ TrainedTotal > 0
    /\ CurrentTotal < TrainedTotal
    /\ rt_decision.result = TRUE

\* C12: for non-stale metadata with a trained total above 0 the decision is
\* true iff (currentTotal - trainedTotal) / trainedTotal is strictly greater
\* than min_data_increase_ratio; a shrink, zero growth and growth of exactly
\* the threshold give false.
C12_GrowthBeyondThreshold ==
    (DecidedOnStamped /\ ModelAge <= rt_decision.max_age /\ TrainedTotal > 0) =>
        /\ ~rt_decision.raised
        /\ rt_decision.result
             = ((CurrentTotal - TrainedTotal) * 100
                  > rt_decision.ratio_pct * TrainedTotal)
        /\ CurrentTotal <= TrainedTotal => rt_decision.result = FALSE
        /\ (CurrentTotal - TrainedTotal) * 100 = rt_decision.ratio_pct * TrainedTotal
             => rt_decision.result = FALSE

\* growth of exactly the threshold on a fresh model: no retraining
C12_Witness ==
    /\ DecidedOnStamped
    /\ ModelAge <= rt_decision.max_age
    /\ TrainedTotal > 0
    /\ CurrentTotal > TrainedTotal
    /\ (CurrentTotal - TrainedTotal) * 100 = rt_decision.ratio_pct * TrainedTotal
    /\ rt_decision.result = FALSE

\* C13: for non-stale metadata whose trained counts sum to 0 the decision is
\* true iff the current counts sum to more than 0, and the call does not end
\* with a division by zero.
C13_ZeroTrained ==
    (DecidedOnStamped /\ ModelAge <= rt_decision.max_age /\ TrainedTotal = 0) =>
        /\ ~rt_decision.raised
        /\ rt_decision.result = (CurrentTotal > 0)

\* a fresh model trained on nothing, with nothing to train on now
C13_Witness ==
    /\ DecidedOnStamped
    /\ ModelAge <= rt_decision.max_age
    /\ TrainedTotal = 0
    /\ CurrentTotal = 0
    /\ rt_decision.result = FALSE
    /\ ~rt_decision.raised

\* the call went as far as the resolution of the target among the cards
Resolved ==
    /\ sp_outcome.kind \in {"returned", "raised"}
    /\ sp_outcome.error # "navigation"
\* the positions the resolver scores: the first five cards that have a title
Scanned == {i \in 1..Len(sp_cards) : i <= 5 /\ sp_cards[i].has_title}
ScoreOf(i) == SimilarityScore(sp_target, sp_cards[i])
AtLeastHalf(score) == 2 * score[1] >= score[2]

\* C14: the resolver of scrape_specific_property_data selects a candidate iff
\* the best similarity score among the scanned candidates is >= 0.5; when it
\* is below 0.5, or there is no candidate, the call raises and no candidate
\* is selected.
C14_ThresholdOrError ==
    Resolved =>
        IF \E i \in Scanned : AtLeastHalf(ScoreOf(i))
        THEN sp_outcome.selected \in Scanned
               /\ AtLeastHalf(ScoreOf(sp_outcome.selected))
        ELSE sp_outcome.kind = "raised" /\ sp_outcome.selected = 0
               /\ sp_outcome.error \in {"not_found", "timeout"}

\* the best candidate scores above 0 and below 0.5: the call raises
C14_Witness ==
    /\ Resolved
    /\ \E i \in Scanned : ScoreOf(i)[1] > 0
    /\ \A i \in Scanned : ~AtLeastHalf(ScoreOf(i))
    /\ sp_outcome.kind = "raised"
    /\ sp_outcome.error = "not_found"

\* C15: the selected candidate is the lowest-index scanned candidate whose
\* score equals the maximum score; a later candidate with an equal score
\* does not replace an earlier one.
C15_FirstOfTheBest ==
    (Resolved /\ sp_outcome.selected # 0) =>
        \A i \in Scanned :
            /\ ~ScoreGreater(ScoreOf(i), ScoreOf(sp_outcome.selected))
            /\ (ScoreOf(i)[1] * ScoreOf(sp_outcome.selected)[2]
                  = ScoreOf(sp_outcome.selected)[1] * ScoreOf(i)[2])
               => sp_outcome.selected <= i

\* two candidates tie for the best score and the earlier one is selected
C15_Witness ==
    /\ Resolved
    /\ sp_outcome.selected # 0
    /\ \E i \in Scanned :
          /\ i > sp_outcome.selected
          /\ ScoreOf(i)[1] * ScoreOf(sp_outcome.selected)[2]
               = ScoreOf(sp_outcome.selected)[1] * ScoreOf(i)[2]

\* C16: at most the first 5 candidates are scanned: a candidate at position
\* 6 or later is never selected, even when it matches the target exactly
\* and no earlier candidate reaches the threshold.
C16_ScanCap ==
    Resolved =>
        /\ sp_outcome.selected <= 5
        /\ (\A i \in Scanned : ~AtLeastHalf(ScoreOf(i)))
             => sp_outcome.kind = "raised" /\ sp_outcome.selected = 0

\* the sixth card matches exactly, none of the first five reaches 0.5
C16_Witness ==
    /\ Resolved
    /\ Len(sp_cards) >= 6
    /\ sp_cards[6].has_title
    /\ ScoreOf(6) = <<2, 2>>
    /\ \A i \in Scanned : ~AtLeastHalf(ScoreOf(i))
    /\ sp_outcome.kind = "raised"
    /\ sp_outcome.selected = 0

\* the call of extract_price_components on pr_input has returned
Parsed == pr_result # NotParsed
Separators == {".", ","}
\* a numeric literal made of digit groups: digits, each separator and each
\* space standing between two digits
DigitGroups(text) ==
    /\ text # <<>>
    /\ \A i \in 1..Len(text) : IsDigit(text[i]) \/ text[i] \in Separators \cup {" "}
    /\ IsDigit(text[1]) /\ IsDigit(text[Len(text)])
    /\ \A i \in 1..(Len(text) - 1) : IsDigit(text[i]) \/ IsDigit(text[i + 1])
Occurrences(text, c) == Len(SelectSeq(text, LAMBDA x : x = c))
\* the separator that the claim makes the decimal point, "" for none
DecimalPoint(text) ==
    LET dot == RFind(text, ".")
        comma == RFind(text, ",")
    IN  IF dot # 0 /\ comma # 0 THEN (IF dot > comma THEN "." ELSE ",")
        ELSE IF dot # 0 THEN (IF Len(text) - dot <= 2 THEN "." ELSE "")
        ELSE IF comma # 0 THEN (IF Len(text) - comma <= 2 THEN "," ELSE "")
        ELSE ""
\* the value the claim gives to a literal: the digits, with the decimal
\* point at the last occurrence of DecimalPoint
ClaimedValue(text) ==
    LET point == DecimalPoint(text)
        digits == SelectSeq(text, IsDigit)
    IN  IF point = "" THEN <<DigitsValue(digits), 0>>
        ELSE Decimal(DigitsValue(digits),
                     Len(SelectSeq(SubSeq(text, RFind(text, point) + 1, Len(text)),
                                   IsDigit)))

\* C17: separator disambiguation of extract_price_components: for every
\* numeric literal made of digit groups with "." and/or ",", when both occur
\* the later one is the decimal point and the other is deleted, when one kind
\* occurs it is the decimal point iff at most 2 characters follow its last
\* occurrence and is deleted otherwise; the literal's value is returned.
\* (Literals in which the decimal point would occur twice are left out.)
C17_SeparatorDisambiguation ==
    (/\ Parsed
     /\ pr_input.is_str
     /\ DigitGroups(pr_input.text)
     /\ \E c \in Separators : Occurrences(pr_input.text, c) > 0
     /\ DecimalPoint(Delete(pr_input.text, " ")) # ""
          => Occurrences(pr_input.text, DecimalPoint(Delete(pr_input.text, " "))) = 1)
    => pr_result = Value(ClaimedValue(Delete(pr_input.text, " ")), <<>>)

\* C18: on input without a recoverable number extract_price_components
\* returns (None, "") for a non-string, and for a string without any digit
\* (0.0, "") if it contains "includes taxes and charges" in any letter case
\* and (None, "") otherwise.
C18_NoNumber ==
    Parsed =>
        /\ ~pr_input.is_str => pr_result = NoValue
        /\ (pr_input.is_str /\ \A i \in 1..Len(pr_input.text) : ~IsDigit(pr_input.text[i]))
             => pr_result =
                  IF Contains(StrLower(Replace(pr_input.text, Nnbsp, " ")), IncludesTaxes)
                  THEN Value(<<0, 0>>, <<>>) ELSE NoValue

\* the phrase with a capital letter and no digit gives the implied zero
C18_Witness ==
    /\ Parsed
    /\ pr_input.is_str
    /\ pr_input.text # StrLower(pr_input.text)
    /\ \A i \in 1..Len(pr_input.text) : ~IsDigit(pr_input.text[i])
    /\ pr_result = Value(<<0, 0>>, <<>>)

\* the currency token next to the amount, <<>> when there is none
MatchedToken ==
    LET m == SearchFullPattern(NormalizeSpaces(pr_input.text))
    IN  IF ~pr_input.is_str \/ ~m.found THEN <<>>
        ELSE IF m.group1 # <<>> THEN m.group1 ELSE m.group3

\* C19: the currency returned by extract_price_components is always a
\* string: the empty string when no currency token is matched, "LKR" when
\* the matched token begins with "RS" after upper-casing, and otherwise the
\* matched token in upper case.
C19_CurrencyNormalised ==
    Parsed =>
        pr_result.currency =
            IF MatchedToken = <<>> THEN <<>>
            ELSE IF StartsWithAt(StrUpper(MatchedToken), 1, <<"R", "S">>) THEN LKR
            ELSE StrUpper(MatchedToken)

\* "rs." in lower case before an amount comes back as LKR
C19_Witness ==
    /\ Parsed
    /\ StartsWithAt(pr_input.text, 1, <<"r", "s", ".">>)
    /\ pr_result.has_value
    /\ pr_result.currency = LKR

\* the call of parse_distance_km on ds_input has returned
Measured == ds_result # NotMeasured

\* C20: parse_distance_km returns kilometres: a text containing "beachfront"
\* in any letter case gives 0.0, a metre-denominated text gives the
\* magnitude divided by 1000, a kilometre-denominated text gives the
\* magnitude unchanged, and a text without a digit, an empty text or None
\* gives None.
C20_Kilometres ==
    Measured =>
        /\ (ds_input.is_str /\ Contains(StrLower(ds_input.text), Beachfront))
             => ds_result = Float(<<0, 0>>)
        /\ \A m \in Magnitudes, t \in Tails :
              /\ \A u \in MetreUnits :
                    ds_input = Str(m \o u \o t)
                      => ds_result = Float(DivideBy1000(ClaimedValue(m)))
              /\ \A u \in KmUnits :
                    ds_input = Str(m \o u \o t)
                      => ds_result = Float(ClaimedValue(m))
        /\ (~ds_input.is_str
              \/ \A i \in 1..Len(ds_input.text) : ~IsDigit(ds_input.text[i]))
             => (ds_result = NoFloat
                   \/ Contains(StrLower(ds_input.text), Beachfront))


\* C21: parse_distance_km divides by 1000 only for a metre marker and never
\* for a kilometre text: whenever the magnitude is directly followed by "km"
\* (with or without a space, in any letter case) the result is the magnitude
\* itself, whatever words follow the unit.
C21_KmNotDivided ==
    Measured =>
        \A m \in Magnitudes, u \in KmUnits, t \in Tails :
            ds_input = Str(m \o u \o t) => ds_result = Float(ClaimedValue(m))


\* the last run of scrape_booking_com_data made the call
Called(event) == \E i \in 1..Len(or_run.events) : or_run.events[i] = event

\* the positions of a run at which save_model_metadata opened the metadata
\* file for writing: the write went through or left the file empty
MetadataOpened(events) ==
    {i \in 1..Len(events) :
        events[i] \in {"metadata written", "metadata emptied"}}
\* the positions of a run at which train_model returned
TrainingReturned(events) ==
    {i \in 1..Len(events) : events[i] = "train_model returned"}

\* the run, in flight or ended, has opened the metadata file at most once,
\* after train_model had returned, and not at all when the decision was
\* false or a scrape or the training raised
WritesAfterTraining(r) ==
    /\ Cardinality(MetadataOpened(r.events)) <= 1
    /\ \A w \in MetadataOpened(r.events) :
          \E t \in TrainingReturned(r.events) : t < w
    /\ (~r.recommended \/ r.raised # "") => MetadataOpened(r.events) = {}

\* C22: in a run of scrape_booking_com_data the metadata file is opened for
\* writing at most once and only after train_model has returned; a run in
\* which should_retrain_model returned false, or scraping or training
\* raised, leaves the metadata file as it is.  Every step that changes the
\* file is the step of a run that was recommended to retrain, has raised
\* nothing, and is suspended in browser.close() with the write as the last
\* thing it did.
C22_MetadataAfterTraining ==
    /\ [](/\ or_run.op = "run" => WritesAfterTraining(or_run)
          /\ \A r \in BagToSet(or_runs) : WritesAfterTraining(r))
    /\ [][rt_file' # rt_file =>
             \E r \in BagToSet(or_runs') :
                /\ CopiesIn(r, or_runs') > CopiesIn(r, or_runs)
                /\ r.pc = "browser_close"
                /\ r.recommended
                /\ r.raised = ""
                /\ Len(r.events) \in MetadataOpened(r.events)]_vars

\* a run has replaced the metadata an earlier run had written and is still
\* in flight, suspended in browser.close()
C22_Witness ==
    \E r \in BagToSet(or_runs) :
       /\ r.pc = "browser_close"
       /\ Len(r.events) \in MetadataOpened(r.events)
       /\ r.events[Len(r.events)] = "metadata written"
       /\ r.meta_before.status = "json"
       /\ rt_file # r.meta_before

\* C24: when should_retrain_model recommended retraining and force_refetch
\* was not requested, neither dataset passed to train_model was served from
\* the Parameter Cache.
C24_TrainingOnRefetchedData ==
    (or_run.op = "run" /\ Called("train_model") /\ ~or_run.force_refetch) =>
        /\ ~or_run.training_properties_cached
        /\ ~or_run.training_details_cached

\* C28: after a run that trained the model and saved its metadata, the
\* following call of should_retrain_model for the same model file and the
\* same dataset counts, within max_model_age_days, returns false.
C28_RetrainingConverges ==
    (/\ or_run.op = "run"
     /\ Called("train_model returned")
     /\ Called("save_model_metadata")
     /\ rt_decision.op = "decide"
     /\ now - MetaGet(LoadModelMetadata(rt_file), "last_trained_at", now)
           <= DefaultMaxModelAgeDays)
        => rt_decision.result = FALSE


\* the members of a dataset
RowsIn(rows) == {rows[i] : i \in 1..Len(rows)}

\* C23: with hotel_details_limit = 0 a run of scrape_general_data hands no
\* URL to scrape_hotel_data_concurrent, returns an empty detail dataset and
\* stores the empty dataset in the limit-0 file.
C23_LimitZeroFetchesNothing ==
    \A force \in BOOLEAN, d \in Delays, x \in {NoHotel, "h1"}, env \in Envs :
      LET r == ScrapeGeneralData(pc_props_file, pc_details_files, pc_url_cached,
                                 now, 0, force, d, x, env)
      IN  ~r.raised =>
              /\ ~r.concurrent_called
              /\ r.hotel_urls_to_scrape = <<>>
              /\ r.hotel_details_data = <<>>
              /\ (r.scrape_details /\ env.save_details = "ok")
                    => r.details_files[0] = ToCsv(<<>>, now)

\* C25: the datasets a run of scrape_general_data returns do not contain the
\* property passed as specific_property_to_exclude, whatever earlier runs
\* left in the Parameter Cache.
C25_ExcludedNeverReturned ==
    \A l \in DetailLimits, force \in BOOLEAN, d \in Delays, env \in Envs :
      LET r == ScrapeGeneralData(pc_props_file, pc_details_files, pc_url_cached,
                                 now, l, force, d, "h1", env)
      IN  ~r.raised =>
              /\ "h1" \notin RowsIn(r.scraped_properties)
              /\ "h1" \notin RowsIn(r.hotel_details_data)


\* the url of the latest cache_url call made for the key, None when none was
LastCachedUrl(destination, adults, rooms) ==
    LET written == RowsOf(uc_file, destination, adults, rooms)
    IN  IF written = <<>> THEN None ELSE written[Len(written)].url

\* C26: get_cached_url returns the url of the latest cache_url call made for
\* the key, and a cache_url call leaves what get_cached_url returns for every
\* other key as it was.
C26_LastWriterWins ==
    /\ uc_result.op = "get_cached_url" =>
          uc_result.ret = LastCachedUrl(uc_result.key.destination,
                                        uc_result.key.adults, uc_result.key.rooms)
    /\ uc_result.op = "cache_url" =>
          \A k \in UrlKeys :
             (k.destination # uc_result.key.destination
                 \/ k.adults # uc_result.key.adults
                 \/ k.rooms # uc_result.key.rooms)
             => GetCachedUrl(uc_file, k.destination, k.adults, k.rooms)
                  = GetCachedUrl(uc_result.before, k.destination, k.adults, k.rooms)


\* the Entity Cache file of the target of the call
TargetFile(files) == files[GenerateCacheKey(sp_target, SpAdults, SpRooms)]
\* the file holds an entry that is not older than 24 hours at time t
FreshEntry(file, t) ==
    file.status = "ok" /\ t - file.cached_at <= DefaultMaxAgeHours
\* the call returned the listing and the details it scraped
ScrapedBoth(outcome) ==
    outcome.kind = "returned" /\ outcome.listing /\ outcome.details
\* an identical call with use_cache, made dt hours later, is served from the
\* cache without navigation
ServedAgain(files, t) ==
    \A dt \in {0, DefaultMaxAgeHours}, env \in SpEnvs :
       \A second \in {ScrapeSpecificPropertyData(files, t + dt, sp_target,
                                                  sp_cards, TRUE, env)} :
          second.outcome.kind = "cached" /\ ~second.outcome.navigated

\* C27 as stated: a call with use_cache that finds a non-expired entry of the
\* target returns it without navigation; the entry is written only when the
\* listing and the details were both obtained; and after a call that obtained
\* both, an identical call within 24 hours is served from the cache.
C27_CacheFirst ==
    \A env \in SpEnvs :
       \A first \in {ScrapeSpecificPropertyData(ec_files, now, sp_target,
                                                 sp_cards, TRUE, env)} :
           /\ FreshEntry(TargetFile(ec_files), now) =>
                 /\ first.outcome.kind = "cached"
                 /\ ~first.outcome.navigated
                 /\ first.files = ec_files
           /\ (TargetFile(first.files) # TargetFile(ec_files)
                  /\ TargetFile(first.files).status # "absent")
                 => ScrapedBoth(first.outcome)
           /\ ScrapedBoth(first.outcome) => ServedAgain(first.files, now)


\* how far a task is in scrape_with_semaphore
Rank(pc) ==
    CASE pc = "acquire" -> 0
      [] pc = "new_context" -> 1
      [] pc = "new_page" -> 2
      [] pc = "fetch" -> 3
      [] pc = "page_close" -> 4
      [] pc = "context_close" -> 5
      [] pc = "ended" -> 6

\* C29: when every awaited step returns or raises, the call of
\* scrape_hotel_data_concurrent returns; no task ever goes back to an earlier
\* step or starts again (no retry); on return every url has had its one task
\* run to its end (no skip), with one gathered result per url; and the
\* semaphore counter is back at max_concurrent.
C29_TerminatesOnceEach ==
    /\ <>(main_pc = "done")
    /\ [][\A i \in Tasks : Rank(tpc'[i]) >= Rank(tpc[i])]_vars
    /\ [](main_pc = "done" =>
            /\ \A i \in Tasks : tpc[i] = "ended"
            /\ \A i \in Tasks : completed_results[i] # Pending(urls[i])
            /\ sem_value = max_concurrent)

\* a batch of MaxUrls urls has returned after tasks queued for the semaphore,
\* one of them ended by an exception
C29_Witness ==
    /\ main_pc = "done"
    /\ Len(urls) = MaxUrls
    /\ max_concurrent < Len(urls)
    /\ \E i \in Tasks : raised_at[i] # "none"
    /\ \E i \in Tasks : raised_at[i] = "none"
    /\ sem_value = max_concurrent


\* C30: for every amount string that is a run of digits without any
\* separator, of any length >= 1, extract_price_components returns the value
\* of the whole run and no currency.
C30_WholeDigitRun ==
    (/\ Parsed
     /\ pr_input.is_str
     /\ pr_input.text # <<>>
     /\ \A i \in 1..Len(pr_input.text) : IsDigit(pr_input.text[i]))
    => pr_result = Value(<<DigitsValue(pr_input.text), 0>>, <<>>)

====
